---- MODULE Spec2Model ----
(***************************************************************************)
(* Model of the XmlElement derive macro of exchange/ews/ews_derive and of  *)
(* the writers it generates, run against an xml-rs EventWriter that may    *)
(* fail on any write.                                                      *)
(*                                                                         *)
(* Strings that the code inspects character by character (identifiers,     *)
(* prefixes, element and attribute names, values) are sequences of         *)
(* one-character strings.  Annotation keys, which the code only compares   *)
(* with is_ident, are plain strings.                                       *)
(***************************************************************************)
EXTENDS Integers, Sequences, FiniteSets, TLC

\* ------------------------------------------------------------------ bounds
MaxIdentLen == 4
MaxMeta == 3
MaxFields == 2
MaxVec == 2
MaxVariants == 2
MaxVariantFields == 2

\* ------------------------------------------------------- string helpers
Lower == <<"a","b","c","d","e","f","g","h","i","j","k","l","m",
           "n","o","p","q","r","s","t","u","v","w","x","y","z">>
Upper == <<"A","B","C","D","E","F","G","H","I","J","K","L","M",
           "N","O","P","Q","R","S","T","U","V","W","X","Y","Z">>

\* char::to_ascii_uppercase
to_ascii_uppercase(c) ==
    IF \E i \in DOMAIN Lower : Lower[i] = c
    THEN Upper[CHOOSE i \in DOMAIN Lower : Lower[i] = c]
    ELSE c

SeqsUpTo(S, n) == UNION { [1..k -> S] : k \in 0..n }

None == [some |-> FALSE, v |-> <<>>]
Some(x) == [some |-> TRUE, v |-> x]

\* ------------------------------------------------------- Name Formatter
MACRO_ATTRIBUTE == "xml_serialize"

\* The filter_map closure of ident_to_pascal_case_string, folded over the
\* characters from position i on with the captured capitalize_next.
RECURSIVE pascal_filter_map(_, _, _)
pascal_filter_map(chars, i, capitalize_next) ==
    IF i > Len(chars) THEN <<>>
    ELSE IF chars[i] = "_" THEN pascal_filter_map(chars, i + 1, TRUE)
    ELSE IF capitalize_next
         THEN <<to_ascii_uppercase(chars[i])>> \o pascal_filter_map(chars, i + 1, FALSE)
         ELSE <<chars[i]>> \o pascal_filter_map(chars, i + 1, capitalize_next)

\* mutant: capitalize_next is not cleared after use
pascal_capitalize_all(ident) ==
    LET kept == SelectSeq(ident, LAMBDA c : c # "_")
    IN  [i \in 1..Len(kept) |-> to_ascii_uppercase(kept[i])]

ident_to_pascal_case_string(ident) == pascal_filter_map(ident, 1, TRUE)

\* The generated const item ELEMENT_NAME, before it is evaluated.
build_element_name_declaration(ident, prefix) ==
    IF prefix.some
    THEN [const |-> "dirty_concat", prefix |-> prefix.v, value |-> <<":">> \o ident]
    ELSE [const |-> "literal", prefix |-> <<>>, value |-> ident]

\* const fn copy_bytes_into: a loop whose body runs before its exit test.
\* index is the 0-based Rust index; an out-of-range index panics, which in
\* a const context fails the build.
RECURSIVE copy_bytes_loop(_, _, _, _)
copy_bytes_loop(input, output, offset, index) ==
    IF index + 1 > Len(input) \/ offset + index + 1 > Len(output)
    THEN [panic |-> TRUE, output |-> output]
    ELSE LET written == [output EXCEPT ![offset + index + 1] = input[index + 1]]
         IN  IF index + 1 = Len(input)
             THEN [panic |-> FALSE, output |-> written]
             ELSE copy_bytes_loop(input, written, offset, index + 1)

copy_bytes_into(input, output, offset) == copy_bytes_loop(input, output, offset, 0)

dirty_concat(prefix, value) ==
    LET LEN == Len(prefix) + Len(value)
        zeroed == [i \in 1..LEN |-> "\\0"]
        first == copy_bytes_into(prefix, zeroed, 0)
        second == copy_bytes_into(value, first.output, Len(prefix))
    IN  IF first.panic THEN first ELSE second

\* Compile-time evaluation of the generated ELEMENT_NAME item.
ELEMENT_NAME(decl) ==
    IF decl.const = "literal"
    THEN [panic |-> FALSE, output |-> decl.value]
    ELSE dirty_concat(decl.prefix, decl.value)

\* ---------------------------------------------------- annotation parsing
\* An Attribute is [path, legal, args]; a Meta is [kind, path, value] with
\* kind in {"NameValue", "Path", "List"}; an Expr is [kind, elems] with kind
\* in {"Lit", "Tuple"}.
try_get_type_meta(attrs) ==
    LET applicable_attrs == SelectSeq(attrs, LAMBDA attr : attr.path = MACRO_ATTRIBUTE)
    IN  IF Len(applicable_attrs) = 0 THEN [err |-> "", meta |-> <<>>]
        ELSE IF Len(applicable_attrs) > 1
        THEN [err |-> "multiple applicable attributes specified for component",
              meta |-> <<>>]
        ELSE IF ~applicable_attrs[1].legal
        THEN [err |-> "illegal attribute syntax", meta |-> <<>>]
        ELSE [err |-> "", meta |-> applicable_attrs[1].args]

XmlNamespaceDefault(uri) == [kind |-> "Default", prefix |-> <<>>, uri |-> uri]
XmlNamespacePrefixed(prefix, uri) == [kind |-> "Prefixed", prefix |-> prefix, uri |-> uri]

\* The filter_map closure of TypeOptions::try_from collected into a Result:
\* the first Err ends the iteration.
RECURSIVE type_options_filter_map(_, _, _, _, _)
type_options_filter_map(meta, i, ns_prefix, has_set_default, namespaces) ==
    IF i > Len(meta)
    THEN [err |-> "", ns_prefix |-> ns_prefix, namespaces |-> namespaces]
    ELSE LET m == meta[i]
             Err(msg) == [err |-> msg, ns_prefix |-> ns_prefix, namespaces |-> namespaces]
         IN  IF m.kind # "NameValue" THEN Err("unrecognized attribute for type")
             ELSE IF m.path = "default_ns"
             THEN IF has_set_default
                  THEN Err("there must be at most one default_ns declaration per type")
                  ELSE type_options_filter_map(meta, i + 1, ns_prefix, TRUE,
                           Append(namespaces, XmlNamespaceDefault(m.value.elems[1])))
             ELSE IF m.path = "ns"
             THEN IF m.value.kind = "Tuple" /\ Len(m.value.elems) = 2
                  THEN type_options_filter_map(meta, i + 1, ns_prefix, has_set_default,
                           Append(namespaces,
                                  XmlNamespacePrefixed(m.value.elems[1], m.value.elems[2])))
                  ELSE Err("ns takes a single tuple of two elements as argument")
             ELSE IF m.path = "ns_prefix"
             THEN IF ns_prefix.some
                  THEN Err("there must be at most one ns_prefix declaration per type")
                  ELSE type_options_filter_map(meta, i + 1, Some(m.value.elems[1]),
                                               has_set_default, namespaces)
             ELSE Err("unrecognized attribute for type")

\* mutant: a repeated default_ns or ns_prefix is dropped, the first one wins
TypeOptions_first_wins(attrs) ==
    LET meta == try_get_type_meta(attrs)
        repeated(i) == /\ meta.meta[i].path \in {"default_ns", "ns_prefix"}
                       /\ \E j \in 1..(i - 1) : meta.meta[j].path = meta.meta[i].path
        kept == SelectSeq([i \in DOMAIN meta.meta |-> [at |-> i, m |-> meta.meta[i]]],
                          LAMBDA e : ~repeated(e.at))
    IN  IF meta.err # ""
        THEN [err |-> meta.err, ns_prefix |-> None, namespaces |-> <<>>]
        ELSE type_options_filter_map([k \in DOMAIN kept |-> kept[k].m], 1, None, FALSE, <<>>)

TypeOptions_try_from(attrs) ==
    LET meta == try_get_type_meta(attrs)
    IN  IF meta.err # ""
        THEN [err |-> meta.err, ns_prefix |-> None, namespaces |-> <<>>]
        ELSE type_options_filter_map(meta.meta, 1, None, FALSE, <<>>)

\* The try_fold closure of FieldOptions::try_from.
RECURSIVE field_options_try_fold(_, _, _)
field_options_try_fold(meta, i, value) ==
    IF i > Len(meta) THEN [err |-> "", is_attribute |-> value]
    ELSE IF meta[i].kind = "Path"
         THEN field_options_try_fold(meta, i + 1, value \/ meta[i].path = "attribute")
         ELSE [err |-> "unrecognized XML field attribute", is_attribute |-> FALSE]

FieldOptions_try_from(attrs) ==
    LET meta == try_get_type_meta(attrs)
    IN  IF meta.err # "" THEN [err |-> meta.err, is_attribute |-> FALSE]
        ELSE field_options_try_fold(meta.meta, 1, FALSE)

\* ------------------------------------------------------- Shape Analyzer
\* A field declaration is [ident, attrs, ty]; ident is <<>> for a positional
\* field.  A Field is what the derivations hand to build_calls_for_fields:
\* [ident, accessor, options], accessor being the field's position.
NoFields == [panic |-> "", fields |-> <<>>]

\* The map closure over syn::Fields::Named, its Results collected and
\* unwrapped with expect(msg).
RECURSIVE named_fields(_, _, _, _)
named_fields(decls, i, acc, msg) ==
    IF i > Len(decls) THEN [panic |-> "", fields |-> acc]
    ELSE LET options == FieldOptions_try_from(decls[i].attrs)
         IN  IF options.err # "" THEN [panic |-> msg, fields |-> <<>>]
             ELSE named_fields(decls, i + 1,
                      Append(acc, [ident |-> Some(decls[i].ident), accessor |-> i,
                                   options |-> [is_attribute |-> options.is_attribute]]),
                      msg)

\* mutant: a positional field marked attribute is handed on as it is
unnamed_fields_unchecked(decls, i, acc, msg) ==
    IF \E j \in DOMAIN decls : FieldOptions_try_from(decls[j].attrs).err # ""
    THEN [panic |-> msg, fields |-> <<>>]
    ELSE [panic |-> "",
          fields |-> [j \in DOMAIN decls |->
                         [ident |-> None, accessor |-> j,
                          options |-> [is_attribute |->
                                          FieldOptions_try_from(decls[j].attrs).is_attribute]]]]

\* The map closure over syn::Fields::Unnamed.
RECURSIVE unnamed_fields(_, _, _, _)
unnamed_fields(decls, i, acc, msg) ==
    IF i > Len(decls) THEN [panic |-> "", fields |-> acc]
    ELSE LET options == FieldOptions_try_from(decls[i].attrs)
         IN  IF options.err # "" THEN [panic |-> msg, fields |-> <<>>]
             ELSE IF options.is_attribute
             THEN [panic |-> "Unnamed fields may not be XML attributes", fields |-> <<>>]
             ELSE unnamed_fields(decls, i + 1,
                      Append(acc, [ident |-> None, accessor |-> i,
                                   options |-> [is_attribute |-> FALSE]]),
                      msg)

verify_call(field) ==
    [fn |-> IF field.options.is_attribute THEN "verify_attribute_field"
                                          ELSE "verify_element_field",
     accessor |-> field.accessor]

attribute_call(field) ==
    [accessor |-> field.accessor, attr_name |-> ident_to_pascal_case_string(field.ident.v)]

element_call(field) == [accessor |-> field.accessor]

MapSeq(s, Op(_)) == [i \in 1..Len(s) |-> Op(s[i])]

Reverse(s) == [i \in 1..Len(s) |-> s[Len(s) + 1 - i]]

\* mutant: the two lists are built back to front
build_calls_reversed(fields) ==
    [panic |-> "",
     verify_calls |-> MapSeq(fields, verify_call),
     attribute_calls |->
         Reverse(MapSeq(SelectSeq(fields, LAMBDA f : f.options.is_attribute), attribute_call)),
     element_calls |->
         Reverse(MapSeq(SelectSeq(fields, LAMBDA f : ~f.options.is_attribute), element_call))]

\* One verify call per field; the serialization calls unzipped through
\* Either into the attribute list and the element list, each in field order.
build_calls_for_fields(fields) ==
    IF \E i \in DOMAIN fields : fields[i].options.is_attribute /\ ~fields[i].ident.some
    THEN [panic |-> "called Option::unwrap() on a None value",
          verify_calls |-> <<>>, attribute_calls |-> <<>>, element_calls |-> <<>>]
    ELSE [panic |-> "",
          verify_calls |-> MapSeq(fields, verify_call),
          attribute_calls |->
              MapSeq(SelectSeq(fields, LAMBDA f : f.options.is_attribute), attribute_call),
          element_calls |->
              MapSeq(SelectSeq(fields, LAMBDA f : ~f.options.is_attribute), element_call)]

\* ------------------------------------------------------ Namespace Planner
xmlns_call(xmlns) ==
    IF xmlns.kind = "Default"
    THEN [op |-> "default_ns", prefix |-> <<>>, uri |-> xmlns.uri]
    ELSE [op |-> "ns", prefix |-> xmlns.prefix, uri |-> xmlns.uri]

\* mutant: the default namespace is moved to the front
build_calls_default_first(namespaces) ==
    MapSeq(SelectSeq(namespaces, LAMBDA n : n.kind = "Default")
             \o SelectSeq(namespaces, LAMBDA n : n.kind # "Default"),
           xmlns_call)

build_calls_for_namespaces(namespaces) == MapSeq(namespaces, xmlns_call)

\* -------------------------------------------------- Serializer Synthesizer
\* A generated impl is [panic, kind, xmlns_calls, arms]; panic # "" means the
\* macro aborted and no impl exists.  An arm is the body generated for one
\* match arm (the whole body for a struct).
NoDecl == [const |-> "none", prefix |-> <<>>, value |-> <<>>]

Panicked(msg) == [panic |-> msg, kind |-> "none", xmlns_calls |-> <<>>, arms |-> <<>>]

Arm(variant, shape, decl, calls, as_string) ==
    [variant |-> variant, shape |-> shape, element_name_decl |-> decl,
     verify_calls |-> calls.verify_calls, attribute_calls |-> calls.attribute_calls,
     element_calls |-> calls.element_calls, as_string |-> as_string]

write_element_derivation_for_struct(ident, data, options) ==
    LET fields == CASE data.fields_kind = "Named" -> named_fields(data.fields, 1, <<>>, "msg")
                    [] data.fields_kind = "Unnamed" -> unnamed_fields(data.fields, 1, <<>>, "msg")
                    [] OTHER -> NoFields
        element_name_decl == build_element_name_declaration(ident, options.ns_prefix)
        xmlns_calls == build_calls_for_namespaces(options.namespaces)
        calls == build_calls_for_fields(fields.fields)
    IN  IF fields.panic # "" THEN Panicked(fields.panic)
        ELSE IF calls.panic # "" THEN Panicked(calls.panic)
        ELSE [panic |-> "", kind |-> "struct", xmlns_calls |-> xmlns_calls,
              arms |-> <<Arm(<<>>, "Struct", element_name_decl, calls, <<>>)>>]

NoCalls == [panic |-> "", verify_calls |-> <<>>, attribute_calls |-> <<>>,
            element_calls |-> <<>>]

\* mutant: the variants after the first are not looked at
unit_enum_unchecked(ident, data, options) ==
    LET element_name_decl == build_element_name_declaration(ident, options.ns_prefix)
        xmlns_calls == build_calls_for_namespaces(options.namespaces)
        variant_arm(variant) == Arm(variant.ident, "Unit", element_name_decl, NoCalls,
                                    variant.ident)
    IN  [panic |-> "", kind |-> "unit_enum", xmlns_calls |-> xmlns_calls,
         arms |-> MapSeq(data.variants, variant_arm)]

write_element_derivation_for_unit_enum(ident, data, options) ==
    LET element_name_decl == build_element_name_declaration(ident, options.ns_prefix)
        xmlns_calls == build_calls_for_namespaces(options.namespaces)
        variant_arm(variant) == Arm(variant.ident, "Unit", element_name_decl, NoCalls,
                                    variant.ident)
    IN  IF \E i \in DOMAIN data.variants : data.variants[i].fields_kind # "Unit"
        THEN Panicked("Mixing unit and non-unit variants in an enum is not supported")
        ELSE [panic |-> "", kind |-> "unit_enum", xmlns_calls |-> xmlns_calls,
              arms |-> MapSeq(data.variants, variant_arm)]

\* mutant: a named-field variant's element is named after the enum
variant_arm_named_after_enum(ident, variant, options, xmlns_calls) ==
    CASE variant.fields_kind = "Named" ->
            LET fields == named_fields(variant.fields, 1, <<>>,
                                       "Unable to to process enum variant field")
                element_name_decl ==
                    build_element_name_declaration(ident, options.ns_prefix)
                calls == build_calls_for_fields(fields.fields)
            IN  IF fields.panic # "" THEN [panic |-> fields.panic, arm |-> <<>>]
                ELSE IF calls.panic # "" THEN [panic |-> calls.panic, arm |-> <<>>]
                ELSE [panic |-> "",
                      arm |-> <<Arm(variant.ident, "Named", element_name_decl, calls, <<>>)>>]
      [] variant.fields_kind = "Unnamed" ->
            LET fields == unnamed_fields(variant.fields, 1, <<>>,
                                         "Unable to to process enum variant field")
                calls == build_calls_for_fields(fields.fields)
            IN  IF Len(xmlns_calls) # 0 \/ options.ns_prefix.some
                THEN [panic |-> "Namespace properties may not be applied to enums with variants containing unnamed fields",
                      arm |-> <<>>]
                ELSE IF fields.panic # "" THEN [panic |-> fields.panic, arm |-> <<>>]
                ELSE IF calls.panic # "" THEN [panic |-> calls.panic, arm |-> <<>>]
                ELSE [panic |-> "",
                      arm |-> <<Arm(variant.ident, "Unnamed", NoDecl,
                                    [calls EXCEPT !.attribute_calls = <<>>], <<>>)>>]
      [] OTHER ->
            [panic |-> "Mixing unit and non-unit variants in an enum is not supported",
             arm |-> <<>>]

\* mutant: a positional-field variant is generated whatever the type declares
variant_arm_namespaces_allowed(ident, variant, options, xmlns_calls) ==
    CASE variant.fields_kind = "Named" ->
            LET fields == named_fields(variant.fields, 1, <<>>,
                                       "Unable to to process enum variant field")
                element_name_decl ==
                    build_element_name_declaration(variant.ident, options.ns_prefix)
                calls == build_calls_for_fields(fields.fields)
            IN  IF fields.panic # "" THEN [panic |-> fields.panic, arm |-> <<>>]
                ELSE IF calls.panic # "" THEN [panic |-> calls.panic, arm |-> <<>>]
                ELSE [panic |-> "",
                      arm |-> <<Arm(variant.ident, "Named", element_name_decl, calls, <<>>)>>]
      [] variant.fields_kind = "Unnamed" ->
            LET fields == unnamed_fields(variant.fields, 1, <<>>,
                                         "Unable to to process enum variant field")
                calls == build_calls_for_fields(fields.fields)
            IN  IF fields.panic # "" THEN [panic |-> fields.panic, arm |-> <<>>]
                ELSE IF calls.panic # "" THEN [panic |-> calls.panic, arm |-> <<>>]
                ELSE [panic |-> "",
                      arm |-> <<Arm(variant.ident, "Unnamed", NoDecl,
                                    [calls EXCEPT !.attribute_calls = <<>>], <<>>)>>]
      [] OTHER ->
            [panic |-> "Mixing unit and non-unit variants in an enum is not supported",
             arm |-> <<>>]

\* The arm generated for one variant of a structured enum, or the panic
\* raised while generating it.  ident is the enum's identifier, which the
\* closure shadows with the variant's.
variant_arm_for_structured_enum(ident, variant, options, xmlns_calls) ==
    CASE variant.fields_kind = "Named" ->
            LET fields == named_fields(variant.fields, 1, <<>>,
                                       "Unable to to process enum variant field")
                element_name_decl ==
                    build_element_name_declaration(variant.ident, options.ns_prefix)
                calls == build_calls_for_fields(fields.fields)
            IN  IF fields.panic # "" THEN [panic |-> fields.panic, arm |-> <<>>]
                ELSE IF calls.panic # "" THEN [panic |-> calls.panic, arm |-> <<>>]
                ELSE [panic |-> "",
                      arm |-> <<Arm(variant.ident, "Named", element_name_decl, calls, <<>>)>>]
      [] variant.fields_kind = "Unnamed" ->
            LET fields == unnamed_fields(variant.fields, 1, <<>>,
                                         "Unable to to process enum variant field")
                calls == build_calls_for_fields(fields.fields)
            IN  IF Len(xmlns_calls) # 0 \/ options.ns_prefix.some
                THEN [panic |-> "Namespace properties may not be applied to enums with variants containing unnamed fields",
                      arm |-> <<>>]
                ELSE IF fields.panic # "" THEN [panic |-> fields.panic, arm |-> <<>>]
                ELSE IF calls.panic # "" THEN [panic |-> calls.panic, arm |-> <<>>]
                ELSE [panic |-> "",
                      arm |-> <<Arm(variant.ident, "Unnamed", NoDecl,
                                    [calls EXCEPT !.attribute_calls = <<>>], <<>>)>>]
      [] OTHER ->
            [panic |-> "Mixing unit and non-unit variants in an enum is not supported",
             arm |-> <<>>]

write_element_derivation_for_structured_enum(ident, data, options) ==
    LET xmlns_calls == build_calls_for_namespaces(options.namespaces)
        variant_arms == MapSeq(data.variants,
                               LAMBDA v : variant_arm_for_structured_enum(ident, v, options, xmlns_calls))
        failed == { i \in DOMAIN variant_arms : variant_arms[i].panic # "" }
        first == CHOOSE i \in failed : \A j \in failed : i <= j
    IN  IF failed # {} THEN Panicked(variant_arms[first].panic)
        ELSE [panic |-> "", kind |-> "structured_enum", xmlns_calls |-> xmlns_calls,
              arms |-> [i \in DOMAIN variant_arms |-> variant_arms[i].arm[1]]]

write_element_derivation_for_enum(ident, data, enum_options) ==
    IF Len(data.variants) = 0
    THEN Panicked("Deriving XmlElement is not supported for zero-variant enums")
    ELSE IF data.variants[1].fields_kind \in {"Named", "Unnamed"}
    THEN write_element_derivation_for_structured_enum(ident, data, enum_options)
    ELSE write_element_derivation_for_unit_enum(ident, data, enum_options)

\* The proc-macro entry point: a DeriveInput is [ident, attrs, data], data
\* being [kind, fields_kind, fields, variants].
derive_xml_write(input) ==
    LET options == TypeOptions_try_from(input.attrs)
    IN  IF options.err # "" THEN Panicked("Unable to parse component attributes")
        ELSE CASE input.data.kind = "Struct" ->
                     write_element_derivation_for_struct(input.ident, input.data, options)
               [] input.data.kind = "Enum" ->
                     write_element_derivation_for_enum(input.ident, input.data, options)
               [] OTHER -> Panicked("Using unions as XML elements is not supported")

\* ------------------------------------------------------ Capability Contract
\* A field type is [container, item]: container "", "Option" or "Vec".
Ty(container, item) == [container |-> container, item |-> item]
NoTy == Ty("", "")

\* impl XmlAttribute for String and for Option<String>
ImplementsXmlAttribute(ty) == ty.item = "String" /\ ty.container \in {"", "Option"}

\* impl XmlElement for String, Option<T>, Vec<T> and every type that derives it
ImplementsXmlElement(ty) == ty.item \in {"String", "BaseShape"}

\* A writer event, and the StartElementBuilder it is made from.
XmlEvent(kind, name, namespaces, attributes) ==
    [kind |-> kind, name |-> name, namespaces |-> namespaces, attributes |-> attributes]

start_element(name) == [name |-> name, namespaces |-> <<>>, attributes |-> <<>>]
builder_ns(b, prefix, uri) ==
    [b EXCEPT !.namespaces = Append(@, [prefix |-> prefix, uri |-> uri])]
builder_default_ns(b, uri) == builder_ns(b, <<>>, uri)
builder_attr(b, name, value) ==
    [b EXCEPT !.attributes = Append(@, [name |-> name, value |-> value])]
characters(text) == XmlEvent("characters", text, <<>>, <<>>)
end_element == XmlEvent("end_element", <<>>, <<>>, <<>>)
StartEvent(b) == XmlEvent("start_element", b.name, b.namespaces, b.attributes)

\* mutant: an absent optional is written as an empty attribute
write_as_attribute_always(value, ty, b, attr_name) ==
    builder_attr(b, attr_name, IF Len(value) = 0 THEN <<>> ELSE value[1])

\* XmlAttribute::write_as_attribute for String and Option<String>; a value is
\* the sequence of its items (one for String, none or one for Option).
write_as_attribute(value, ty, b, attr_name) ==
    IF ty.container = "Option" /\ Len(value) = 0 THEN b
    ELSE builder_attr(b, attr_name, value[1])

\* ------------------------------------------------------- generated writers
\* A statement of a generated write_as_element body, with the value of the
\* field it reads.  depth is the nesting of the call it belongs to.
Stmt(op, depth, accessor, name, uri, value, ty) ==
    [op |-> op, depth |-> depth, accessor |-> accessor, name |-> name, uri |-> uri,
     value |-> value, ty |-> ty]

FlatMap(s, Op(_)) ==
    LET F[i \in 0..Len(s)] == IF i = 0 THEN <<>> ELSE F[i - 1] \o Op(s[i])
    IN  F[Len(s)]

\* mutant: the attribute calls are placed before the namespace calls
wrapped_body_attributes_first(arm, xmlns_calls, name, self, tys, depth) ==
    MapSeq(arm.verify_calls,
           LAMBDA c : Stmt(c.fn, depth, c.accessor, <<>>, <<>>, <<>>, tys[c.accessor]))
    \o <<Stmt("start_element", depth, 0, name, <<>>, <<>>, NoTy)>>
    \o MapSeq(arm.attribute_calls,
              LAMBDA c : Stmt("write_as_attribute", depth, c.accessor, c.attr_name, <<>>,
                              self.fields[c.accessor], tys[c.accessor]))
    \o MapSeq(xmlns_calls, LAMBDA c : Stmt(c.op, depth, 0, c.prefix, c.uri, <<>>, NoTy))
    \o <<Stmt("write_builder", depth, 0, <<>>, <<>>, <<>>, NoTy)>>
    \o MapSeq(arm.element_calls,
              LAMBDA c : Stmt("write_as_element", depth, c.accessor, <<>>, <<>>,
                              self.fields[c.accessor], tys[c.accessor]))
    \o <<Stmt("end_element", depth, 0, <<>>, <<>>, <<>>, NoTy)>>

\* mutant: the checks are made once the builder exists
wrapped_body_checks_late(arm, xmlns_calls, name, self, tys, depth) ==
    <<Stmt("start_element", depth, 0, name, <<>>, <<>>, NoTy)>>
    \o MapSeq(arm.verify_calls,
              LAMBDA c : Stmt(c.fn, depth, c.accessor, <<>>, <<>>, <<>>, tys[c.accessor]))
    \o MapSeq(xmlns_calls, LAMBDA c : Stmt(c.op, depth, 0, c.prefix, c.uri, <<>>, NoTy))
    \o MapSeq(arm.attribute_calls,
              LAMBDA c : Stmt("write_as_attribute", depth, c.accessor, c.attr_name, <<>>,
                              self.fields[c.accessor], tys[c.accessor]))
    \o <<Stmt("write_builder", depth, 0, <<>>, <<>>, <<>>, NoTy)>>
    \o MapSeq(arm.element_calls,
              LAMBDA c : Stmt("write_as_element", depth, c.accessor, <<>>, <<>>,
                              self.fields[c.accessor], tys[c.accessor]))
    \o <<Stmt("end_element", depth, 0, <<>>, <<>>, <<>>, NoTy)>>

\* mutant: the element is left open
wrapped_body_unclosed(arm, xmlns_calls, name, self, tys, depth) ==
    MapSeq(arm.verify_calls,
           LAMBDA c : Stmt(c.fn, depth, c.accessor, <<>>, <<>>, <<>>, tys[c.accessor]))
    \o <<Stmt("start_element", depth, 0, name, <<>>, <<>>, NoTy)>>
    \o MapSeq(xmlns_calls, LAMBDA c : Stmt(c.op, depth, 0, c.prefix, c.uri, <<>>, NoTy))
    \o MapSeq(arm.attribute_calls,
              LAMBDA c : Stmt("write_as_attribute", depth, c.accessor, c.attr_name, <<>>,
                              self.fields[c.accessor], tys[c.accessor]))
    \o <<Stmt("write_builder", depth, 0, <<>>, <<>>, <<>>, NoTy)>>
    \o MapSeq(arm.element_calls,
              LAMBDA c : Stmt("write_as_element", depth, c.accessor, <<>>, <<>>,
                              self.fields[c.accessor], tys[c.accessor]))

\* The body quoted for a struct and for a named-field variant.
wrapped_body(arm, xmlns_calls, name, self, tys, depth) ==
    MapSeq(arm.verify_calls,
           LAMBDA c : Stmt(c.fn, depth, c.accessor, <<>>, <<>>, <<>>, tys[c.accessor]))
    \o <<Stmt("start_element", depth, 0, name, <<>>, <<>>, NoTy)>>
    \o MapSeq(xmlns_calls, LAMBDA c : Stmt(c.op, depth, 0, c.prefix, c.uri, <<>>, NoTy))
    \o MapSeq(arm.attribute_calls,
              LAMBDA c : Stmt("write_as_attribute", depth, c.accessor, c.attr_name, <<>>,
                              self.fields[c.accessor], tys[c.accessor]))
    \o <<Stmt("write_builder", depth, 0, <<>>, <<>>, <<>>, NoTy)>>
    \o MapSeq(arm.element_calls,
              LAMBDA c : Stmt("write_as_element", depth, c.accessor, <<>>, <<>>,
                              self.fields[c.accessor], tys[c.accessor]))
    \o <<Stmt("end_element", depth, 0, <<>>, <<>>, <<>>, NoTy)>>

\* mutant: the variant's text is written outside the element
unit_body_text_last(arm, xmlns_calls, name, depth) ==
    <<Stmt("start_element", depth, 0, name, <<>>, <<>>, NoTy)>>
    \o MapSeq(xmlns_calls, LAMBDA c : Stmt(c.op, depth, 0, c.prefix, c.uri, <<>>, NoTy))
    \o <<Stmt("write_builder", depth, 0, <<>>, <<>>, <<>>, NoTy),
         Stmt("end_element", depth, 0, <<>>, <<>>, <<>>, NoTy),
         Stmt("characters", depth, 0, arm.as_string, <<>>, <<>>, NoTy)>>

\* The body quoted for an all-unit enum, with the matched arm's string.
unit_body(arm, xmlns_calls, name, depth) ==
    <<Stmt("start_element", depth, 0, name, <<>>, <<>>, NoTy)>>
    \o MapSeq(xmlns_calls, LAMBDA c : Stmt(c.op, depth, 0, c.prefix, c.uri, <<>>, NoTy))
    \o <<Stmt("write_builder", depth, 0, <<>>, <<>>, <<>>, NoTy),
         Stmt("characters", depth, 0, arm.as_string, <<>>, <<>>, NoTy),
         Stmt("end_element", depth, 0, <<>>, <<>>, <<>>, NoTy)>>

\* mutant: the positional variant is wrapped in an element like a named one
unnamed_body_wrapped(arm, self, tys, depth) ==
    wrapped_body(arm, <<>>, arm.variant, self, tys, depth)

\* The body quoted for a positional-field variant.
unnamed_body(arm, self, tys, depth) ==
    MapSeq(arm.verify_calls,
           LAMBDA c : Stmt(c.fn, depth, c.accessor, <<>>, <<>>, <<>>, tys[c.accessor]))
    \o MapSeq(arm.element_calls,
              LAMBDA c : Stmt("write_as_element", depth, c.accessor, <<>>, <<>>,
                              self.fields[c.accessor], tys[c.accessor]))
    \o <<Stmt("ok", depth, 0, <<>>, <<>>, <<>>, NoTy)>>

\* The statements write_as_element runs for the value self of a derived
\* type: the body of the arm that self matches.  names holds ELEMENT_NAME of
\* each arm.
write_as_element(generated, names, self, tys, depth) ==
    LET arm == generated.arms[self.variant]
        name == names[self.variant]
    IN  CASE arm.shape \in {"Struct", "Named"} ->
                 wrapped_body(arm, generated.xmlns_calls, name, self, tys, depth)
          [] arm.shape = "Unit" -> unit_body(arm, generated.xmlns_calls, name, depth)
          [] OTHER -> unnamed_body(arm, self, tys, depth)

\* ------------------------------------------------------------ declarations
Attr(path, legal, args) == [path |-> path, legal |-> legal, args |-> args]
XmlSerialize(args) == Attr(MACRO_ATTRIBUTE, TRUE, args)
Lit(s) == [kind |-> "Lit", elems |-> <<s>>]
Tuple(elems) == [kind |-> "Tuple", elems |-> elems]
NameValue(path, value) == [kind |-> "NameValue", path |-> path, value |-> value]
Path(path) == [kind |-> "Path", path |-> path, value |-> Lit(<<>>)]

FieldDecl(ident, attrs, ty) == [ident |-> ident, attrs |-> attrs, ty |-> ty]
Variant(ident, fields_kind, fields) ==
    [ident |-> ident, fields_kind |-> fields_kind, fields |-> fields]
StructData(fields_kind, fields) ==
    [kind |-> "Struct", fields_kind |-> fields_kind, fields |-> fields, variants |-> <<>>]
EnumData(variants) ==
    [kind |-> "Enum", fields_kind |-> "Unit", fields |-> <<>>, variants |-> variants]
UnionData == [kind |-> "Union", fields_kind |-> "Named", fields |-> <<>>, variants |-> <<>>]
DeriveInput(ident, attrs, data) == [ident |-> ident, attrs |-> attrs, data |-> data]

TypeName == <<"T","y","p","e","N","a","m","e">>
UrnA == <<"u","r","n",":","a">>
UrnB == <<"u","r","n",":","b">>
UrnM == <<"u","r","n",":","m">>
FieldIdents == << <<"i","d">>, <<"c","h","a","n","g","e","_","k","e","y">>, <<"i","t","e","m","_","s","h","a","p","e">>, <<"m","a","i","l","b","o","x">> >>
VariantIdents == << <<"F","o","l","d","e","r","I","d">>, <<"D","i","s","t","i","n","g","u","i","s","h","e","d","F","o","l","d","e","r","I","d">>, <<"I","t","e","m","I","d">> >>

\* A unit enum that derives XmlElement, used as the type of fields.
BaseShape ==
    DeriveInput(<<"B","a","s","e","S","h","a","p","e">>, <<XmlSerialize(<<NameValue("ns_prefix", Lit(<<"t">>))>>)>>,
                EnumData(<< Variant(<<"I","d","O","n","l","y">>, "Unit", <<>>),
                            Variant(<<"D","e","f","a","u","l","t">>, "Unit", <<>>),
                            Variant(<<"A","l","l","P","r","o","p","e","r","t","i","e","s">>, "Unit", <<>>) >>))

StringValues == { <<"a">>, <<"b">> }

\* ------------------------------------------------------------------ inputs
IdentAlphabet == {"a", "Z", "_", "9"}

\* Rust identifiers: no leading digit, and not the lone underscore.
Idents(n) == { s \in SeqsUpTo(IdentAlphabet, n) :
                 Len(s) > 0 /\ s[1] # "9" /\ s # <<"_">> }

Attribute == <<XmlSerialize(<<Path("attribute")>>)>>

TypeMetas ==
    { NameValue("default_ns", Lit(UrnA)),
      NameValue("ns", Tuple(<<<<"t">>, UrnB>>)),
      NameValue("ns", Tuple(<<<<"m">>, UrnM>>)),
      NameValue("ns_prefix", Lit(<<"x">>)),
      NameValue("ns_prefix", Lit(<<>>)),
      Path("attribute") }

OddAttrs ==
    { <<XmlSerialize(<<>>), XmlSerialize(<<>>)>>,
      <<Attr(MACRO_ATTRIBUTE, FALSE, <<>>)>>,
      <<Attr("serde", TRUE, <<Path("attribute")>>)>>,
      <<Attr("serde", FALSE, <<>>), XmlSerialize(<<Path("attribute")>>)>>,
      <<XmlSerialize(<<Path("other")>>)>>,
      <<XmlSerialize(<<Path("other"), Path("attribute")>>)>>,
      <<XmlSerialize(<<NameValue("attribute", Lit(<<"x">>))>>)>>,
      <<XmlSerialize(<<NameValue("ns", Lit(<<"t">>))>>)>>,
      <<XmlSerialize(<<NameValue("ns", Tuple(<<<<"t">>, UrnB, UrnM>>))>>)>>,
      <<XmlSerialize(<<NameValue("other", Lit(<<"x">>))>>)>> }

FieldTys == { Ty("", "String"), Ty("Option", "String"), Ty("Vec", "String"),
              Ty("", "BaseShape"), Ty("Vec", "BaseShape") }

\* Field lists of at most n fields, named after their position.
FieldLists(named, n, tys) ==
    { [i \in DOMAIN c |-> FieldDecl(IF named THEN FieldIdents[i] ELSE <<>>, c[i][1], c[i][2])] :
        c \in SeqsUpTo({<<>>, Attribute} \X tys, n) }

Fixed2 == << FieldDecl(FieldIdents[1], Attribute, Ty("", "String")),
             FieldDecl(FieldIdents[2], <<>>, Ty("", "String")) >>

\* Structs with one attribute field of every identifier.
NameInputs ==
    { DeriveInput(TypeName, <<>>,
                  StructData("Named", <<FieldDecl(ident, Attribute, Ty("", "String"))>>)) :
        ident \in Idents(MaxIdentLen) }

\* One struct under every type annotation.
AnnotationInputs ==
    { DeriveInput(TypeName, attrs, StructData("Named", Fixed2)) :
        attrs \in { <<XmlSerialize(metas)>> : metas \in SeqsUpTo(TypeMetas, MaxMeta) }
                  \cup OddAttrs }

\* Structs of every field list, and one field under every field annotation.
FieldInputs ==
    { DeriveInput(TypeName, <<>>, StructData("Named", fields)) :
        fields \in FieldLists(TRUE, MaxFields, FieldTys) }
    \cup { DeriveInput(TypeName, <<>>, StructData("Unnamed", fields)) :
             fields \in FieldLists(FALSE, MaxFields, FieldTys) }
    \cup { DeriveInput(TypeName, <<>>, StructData(kind, <<FieldDecl(FieldIdents[1], attrs, ty)>>)) :
             kind \in {"Named", "Unnamed"}, attrs \in OddAttrs,
             ty \in {Ty("", "String"), Ty("Vec", "String")} }
    \cup { DeriveInput(TypeName, <<>>, StructData("Unit", <<>>)),
           DeriveInput(TypeName, <<>>, UnionData) }

EnumAttrs ==
    { <<>>,
      <<XmlSerialize(<<NameValue("ns_prefix", Lit(<<"x">>))>>)>>,
      <<XmlSerialize(<<NameValue("ns", Tuple(<<<<"t">>, UrnB>>))>>)>>,
      <<XmlSerialize(<<NameValue("default_ns", Lit(UrnA)),
                       NameValue("ns", Tuple(<<<<"t">>, UrnB>>)),
                       NameValue("ns_prefix", Lit(<<"x">>))>>)>> }

VariantTys == { Ty("", "String"), Ty("Vec", "String") }

\* Every shape for the first variant; for the others one shape of each kind and
\* a positional shape that the first variant may have too.
FirstVariants ==
    { Variant(VariantIdents[1], "Unit", <<>>) }
    \cup { Variant(VariantIdents[1], "Named", fields) :
             fields \in FieldLists(TRUE, MaxVariantFields, VariantTys) }
    \cup { Variant(VariantIdents[1], "Unnamed", fields) :
             fields \in FieldLists(FALSE, MaxVariantFields, VariantTys) }

LaterVariants(i) ==
    { Variant(VariantIdents[i], "Unit", <<>>),
      Variant(VariantIdents[i], "Named", Fixed2),
      Variant(VariantIdents[i], "Unnamed",
              <<FieldDecl(<<>>, <<>>, Ty("", "BaseShape")),
                FieldDecl(<<>>, <<>>, Ty("Option", "String"))>>),
      Variant(VariantIdents[i], "Unnamed", <<FieldDecl(<<>>, <<>>, Ty("Vec", "String"))>>) }

LaterLists(m) ==
    { r \in [1..m -> UNION { LaterVariants(i) : i \in 2..(m + 1) }] :
        \A i \in 1..m : r[i] \in LaterVariants(i + 1) }

VariantLists ==
    { <<>> } \cup
    UNION { { [i \in 1..k |-> IF i = 1 THEN first ELSE rest[i - 1]] :
                first \in FirstVariants, rest \in LaterLists(k - 1) } :
            k \in 1..MaxVariants }

EnumInputs ==
    { DeriveInput(TypeName, attrs, EnumData(variants)) :
        attrs \in EnumAttrs, variants \in VariantLists }

\* Structs with two attribute fields of different identifiers.
MaxPairIdentLen == 2
TwoAttributeInputs ==
    { DeriveInput(TypeName, <<>>,
                  StructData("Named", << FieldDecl(pair[1], Attribute, Ty("", "String")),
                                         FieldDecl(pair[2], Attribute, Ty("", "String")) >>)) :
        pair \in { p \in Idents(MaxPairIdentLen) \X Idents(MaxPairIdentLen) : p[1] # p[2] } }

DeriveInputs ==
    NameInputs \cup AnnotationInputs \cup FieldInputs \cup EnumInputs \cup TwoAttributeInputs

\* ------------------------------------------------------------------- values
\* A value of a derived type is [variant, fields]: the arm it matches and the
\* value of each field, itself the sequence of the field's items.  The item
\* at index n of the field at position p is named after both.
Digits == <<"1", "2", "3", "4">>
ItemAt(ty, p, n) ==
    IF ty.item = "String" THEN <<Lower[p], Digits[n]>>
    ELSE BaseShape.data.variants[((p + n) % 3) + 1].ident

TyValues(ty, p) ==
    CASE ty.container = "" -> { <<ItemAt(ty, p, 1)>> }
      [] ty.container = "Option" -> { <<>>, <<ItemAt(ty, p, 1)>> }
      [] OTHER -> { [n \in 1..k |-> ItemAt(ty, p, n)] : k \in 0..MaxVec }

RECURSIVE FieldValues(_, _)
FieldValues(decls, p) ==
    IF p > Len(decls) THEN { <<>> }
    ELSE { <<x>> \o rest : x \in TyValues(decls[p].ty, p), rest \in FieldValues(decls, p + 1) }

\* The field declarations behind arm i of the impl generated for input.
ArmFields(in, i) ==
    IF in.data.kind = "Struct" THEN in.data.fields ELSE in.data.variants[i].fields

ArmTys(in, i) == MapSeq(ArmFields(in, i), LAMBDA d : d.ty)

Values(in) ==
    IF in.data.kind = "Struct"
    THEN { [variant |-> 1, fields |-> f] : f \in FieldValues(in.data.fields, 1) }
    ELSE UNION { { [variant |-> i, fields |-> f] :
                     f \in FieldValues(in.data.variants[i].fields, 1) } :
                 i \in DOMAIN in.data.variants }

\* ---------------------------------------------------------------- the state
VARIABLES
    input,       \* the DeriveInput handed to the macro
    pc,          \* "derive", "expanded", "build_error", "compiled", "running", "returned"
    generated,   \* the impl the macro generated
    diag,        \* the build error, if any
    names,       \* ELEMENT_NAME as evaluated for each arm
    self,        \* the value being written
    todo,        \* the statements write_as_element has still to run
    builder,     \* the StartElementBuilder in the making
    events,      \* the events the EventWriter has accepted
    raised,      \* the error the EventWriter raised, if any
    result,      \* what the top-level write_as_element returned
    invoked,     \* the fields whose element-writer the top-level body has called
    second,      \* the locals and the writer of a second, independent call
    document,    \* generate_autodiscover_request_body: its events, buffer and result
    client,      \* the autodiscover client's main: its requests, responses and output
    parser,      \* get_url_from_autodiscover_response: its flags and the url
    channel,     \* HttpClient::request: the calls made on the channel and the result
    stream,      \* SimpleInputStream: src, cur_index and the last results
    example      \* the find_item example: the body bytes and the request sent

vars == <<input, pc, generated, diag, names, self, todo, builder, events, raised,
          result, invoked, second, document, client, parser, channel, stream, example>>

\* The state of the programs around the serializer.
clients == <<document, client, parser, channel, stream, example>>

WriterErrors == {"BrokenPipe", "WriteZero"}
Pending == [state |-> "pending", error |-> ""]
Ok == [state |-> "Ok", error |-> ""]
Err(e) == [state |-> "Err", error |-> e]

NoValue == [variant |-> 0, fields |-> <<>>]

\* The locals of one call of write_as_element and the EventWriter it is given.
Frame(value, stmts) ==
    [self |-> value, todo |-> stmts, builder |-> start_element(<<>>), events |-> <<>>,
     raised |-> "", result |-> Pending]

NotCalled == Frame(NoValue, <<>>)

\* generate_autodiscover_request_body before it is called.
NoDocument == [pc |-> "idle", email |-> <<>>, todo |-> <<>>, events |-> <<>>,
               result |-> Pending]
\* The autodiscover client before main has read the address.
NoClient == [pc |-> "idle", address |-> <<>>, password |-> None, req |-> None,
             executed |-> <<>>, statuses |-> <<>>, res_txt |-> <<>>, stdout |-> <<>>,
             result |-> Pending]
\* get_url_from_autodiscover_response before it is called; open holds the
\* elements the reader has opened and not yet closed.
NoParser == [pc |-> "idle", open |-> <<>>, in_account |-> FALSE, in_protocol |-> FALSE,
             in_as_url |-> FALSE, url |-> <<>>, returned |-> <<>>]
\* HttpClient::request before it is called.
NoChannel == [pc |-> "idle", method |-> "", request_body |-> <<>>, calls |-> <<>>,
              upload |-> None, result |-> Pending]
\* No SimpleInputStream exists.
NoStream == [pc |-> "idle", src |-> <<>>, cur_index |-> 0, aBuf |-> <<>>,
             last |-> [op |-> "", aCount |-> 0, before |-> 0, state |-> "", value |-> 0]]
\* The find_item example before main runs.
NoExample == [pc |-> "idle", todo |-> <<>>, body_bytes |-> <<>>, written |-> Pending,
              stderr |-> <<>>, requests |-> <<>>]

\* None of the programs around the serializer has started.
NoClients ==
    /\ document = NoDocument
    /\ client = NoClient
    /\ parser = NoParser
    /\ channel = NoChannel
    /\ stream = NoStream
    /\ example = NoExample

Init ==
    /\ input \in DeriveInputs
    /\ pc = "derive"
    /\ generated = Panicked("")
    /\ diag = ""
    /\ names = <<>>
    /\ self = NoValue
    /\ todo = <<>>
    /\ builder = start_element(<<>>)
    /\ events = <<>>
    /\ raised = ""
    /\ result = Pending
    /\ invoked = <<>>
    /\ second = NotCalled
    /\ NoClients

\* ------------------------------------------------------------- build time
\* The macro runs: it generates an impl or panics.
Derive ==
    /\ pc = "derive"
    /\ generated' = derive_xml_write(input)
    /\ diag' = generated'.panic
    /\ pc' = IF generated'.panic # "" THEN "build_error" ELSE "expanded"
    /\ UNCHANGED <<clients, second, input, names, self, todo, builder, events, raised, result, invoked>>

ChildImpl == derive_xml_write(BaseShape)
ChildNames == MapSeq(ChildImpl.arms, LAMBDA arm : ELEMENT_NAME(arm.element_name_decl).output)

\* The trait bound of one verify call against the field's type.
verify_bound_holds(call, ty) ==
    IF call.fn = "verify_attribute_field" THEN ImplementsXmlAttribute(ty)
                                          ELSE ImplementsXmlElement(ty)

\* The compiler takes the expansion: it evaluates each ELEMENT_NAME and
\* checks the bound of each verify call.
Compile ==
    /\ pc = "expanded"
    /\ LET consts == MapSeq(generated.arms,
                            LAMBDA arm : IF arm.element_name_decl.const = "none"
                                         THEN [panic |-> FALSE, output |-> <<>>]
                                         ELSE ELEMENT_NAME(arm.element_name_decl))
           bounds == \A i \in DOMAIN generated.arms :
                        \A k \in DOMAIN generated.arms[i].verify_calls :
                            LET call == generated.arms[i].verify_calls[k]
                            IN  verify_bound_holds(call, ArmTys(input, i)[call.accessor])
       IN  IF \E i \in DOMAIN consts : consts[i].panic
           THEN /\ pc' = "build_error"
                /\ diag' = "evaluation of constant value failed"
                /\ names' = names
           ELSE IF ~bounds
           THEN /\ pc' = "build_error"
                /\ diag' = "the trait bound is not satisfied"
                /\ names' = names
           ELSE /\ pc' = "compiled"
                /\ diag' = diag
                /\ names' = MapSeq(consts, LAMBDA c : c.output)
    /\ UNCHANGED <<clients, second, input, generated, self, todo, builder, events, raised, result, invoked>>

\* --------------------------------------------------------------- run time
\* write_request: the top-level call of write_as_element on a value.
Call ==
    /\ pc = "compiled"
    /\ \E v \in Values(input) :
          /\ self' = v
          /\ todo' = write_as_element(generated, names, v, ArmTys(input, v.variant), 0)
    /\ pc' = "running"
    /\ UNCHANGED <<clients, second, input, generated, diag, names, builder, events, raised, result, invoked>>

\* The rest of the body runs; when nothing is left the call returns Ok.
Continue(rest) ==
    /\ todo' = rest
    /\ IF rest = <<>> THEN pc' = "returned" /\ result' = Ok
                      ELSE UNCHANGED <<pc, result>>

\* mutant: the error of a write is dropped and the body goes on
IgnoreError(e) ==
    /\ Continue(Tail(todo))
    /\ raised' = e

\* The ? applied to a failed write: every caller up to write_request returns
\* the same Err at once.
Propagate(e) ==
    /\ todo' = <<>>
    /\ pc' = "returned"
    /\ result' = Err(e)
    /\ raised' = e

Running(ops) == pc = "running" /\ todo # <<>> /\ Head(todo).op \in ops

\* verify_attribute_field / verify_element_field: nothing at run time.
VerifyField ==
    /\ Running({"verify_attribute_field", "verify_element_field"})
    /\ Continue(Tail(todo))
    /\ UNCHANGED <<clients, second, input, generated, diag, names, self, builder, events, raised, invoked>>

\* let builder = XmlEvent::start_element(ELEMENT_NAME);
StartElement ==
    /\ Running({"start_element"})
    /\ builder' = start_element(Head(todo).name)
    /\ Continue(Tail(todo))
    /\ UNCHANGED <<clients, second, input, generated, diag, names, self, events, raised, invoked>>

\* let builder = builder.default_ns(uri); / builder.ns(prefix, uri);
DeclareNamespace ==
    /\ Running({"default_ns", "ns"})
    /\ builder' = IF Head(todo).op = "default_ns"
                  THEN builder_default_ns(builder, Head(todo).uri)
                  ELSE builder_ns(builder, Head(todo).name, Head(todo).uri)
    /\ Continue(Tail(todo))
    /\ UNCHANGED <<clients, second, input, generated, diag, names, self, events, raised, invoked>>

\* let builder = field.write_as_attribute(builder, attr_name);
WriteAsAttribute ==
    /\ Running({"write_as_attribute"})
    /\ builder' = write_as_attribute(Head(todo).value, Head(todo).ty, builder, Head(todo).name)
    /\ Continue(Tail(todo))
    /\ UNCHANGED <<clients, second, input, generated, diag, names, self, events, raised, invoked>>

\* The event a write statement hands to the writer.
EventOf(stmt) ==
    CASE stmt.op = "write_builder" -> StartEvent(builder)
      [] stmt.op = "characters" -> characters(stmt.name)
      [] OTHER -> end_element

\* writer.write(event) succeeds.
WriteOk ==
    /\ Running({"write_builder", "characters", "end_element"})
    /\ events' = Append(events, EventOf(Head(todo)))
    /\ Continue(Tail(todo))
    /\ UNCHANGED <<clients, second, input, generated, diag, names, self, builder, raised, invoked>>

\* writer.write(event) fails.
WriteErr ==
    /\ Running({"write_builder", "characters", "end_element"})
    /\ \E e \in WriterErrors : Propagate(e)
    /\ UNCHANGED <<clients, second, input, generated, diag, names, self, builder, events, invoked>>

\* The statements one item of a field runs as an element: a String writes
\* its characters, a derived type runs its generated body.
item_write_as_element(item, ty, depth) ==
    IF ty.item = "String"
    THEN <<Stmt("characters", depth, 0, item, <<>>, <<>>, NoTy)>>
    ELSE LET v == CHOOSE i \in DOMAIN ChildImpl.arms : ChildImpl.arms[i].variant = item
         IN  write_as_element(ChildImpl, ChildNames, [variant |-> v, fields |-> <<>>],
                              <<>>, depth)

\* mutant: a sequence writes its last item first
field_write_as_element_reversed(value, ty, depth) ==
    FlatMap(Reverse(value), LAMBDA item : item_write_as_element(item, ty, depth))

\* XmlElement for T, Option<T> and Vec<T>: one delegation per item, in order.
field_write_as_element(value, ty, depth) ==
    FlatMap(value, LAMBDA item : item_write_as_element(item, ty, depth))

\* field.write_as_element(writer)?
FieldWriteAsElement ==
    /\ Running({"write_as_element"})
    /\ Continue(field_write_as_element(Head(todo).value, Head(todo).ty, Head(todo).depth + 1)
                \o Tail(todo))
    /\ invoked' = IF Head(todo).depth = 0 THEN Append(invoked, Head(todo).accessor)
                                          ELSE invoked
    /\ UNCHANGED <<clients, second, input, generated, diag, names, self, builder, events, raised>>

\* Ok(()) at the end of a positional variant's arm.
ReturnOk ==
    /\ Running({"ok"})
    /\ Continue(Tail(todo))
    /\ UNCHANGED <<clients, second, input, generated, diag, names, self, builder, events, raised, invoked>>

\* ------------------------------------------------ a call on its own locals
\* The call returns Ok once nothing of its body is left.
return_ok(frame) == IF frame.todo = <<>> THEN [frame EXCEPT !.result = Ok] ELSE frame

\* One statement of a generated body run on the locals of the call it belongs
\* to, its write accepted.
run_statement(frame) ==
    LET stmt == Head(frame.todo)
        rest == Tail(frame.todo)
    IN  return_ok(
            CASE stmt.op = "start_element" ->
                     [frame EXCEPT !.todo = rest, !.builder = start_element(stmt.name)]
              [] stmt.op = "default_ns" ->
                     [frame EXCEPT !.todo = rest,
                                   !.builder = builder_default_ns(frame.builder, stmt.uri)]
              [] stmt.op = "ns" ->
                     [frame EXCEPT !.todo = rest,
                                   !.builder = builder_ns(frame.builder, stmt.name, stmt.uri)]
              [] stmt.op = "write_as_attribute" ->
                     [frame EXCEPT !.todo = rest,
                                   !.builder = write_as_attribute(stmt.value, stmt.ty,
                                                                  frame.builder, stmt.name)]
              [] stmt.op = "write_builder" ->
                     [frame EXCEPT !.todo = rest,
                                   !.events = Append(@, StartEvent(frame.builder))]
              [] stmt.op = "characters" ->
                     [frame EXCEPT !.todo = rest, !.events = Append(@, characters(stmt.name))]
              [] stmt.op = "end_element" ->
                     [frame EXCEPT !.todo = rest, !.events = Append(@, end_element)]
              [] stmt.op = "write_as_element" ->
                     [frame EXCEPT !.todo = field_write_as_element(stmt.value, stmt.ty,
                                                                   stmt.depth + 1) \o rest]
              [] OTHER -> [frame EXCEPT !.todo = rest])

\* A whole call on a writer that accepts every event.
RECURSIVE run_to_end(_)
run_to_end(frame) ==
    IF frame.todo = <<>> THEN frame ELSE run_to_end(run_statement(frame))

\* ELEMENT_NAME of each arm of an impl, as the compiler evaluates it.
element_names(impl) ==
    MapSeq(impl.arms, LAMBDA arm : IF arm.element_name_decl.const = "none" THEN <<>>
                                   ELSE ELEMENT_NAME(arm.element_name_decl).output)

\* The events that write_as_element writes for value, a value of the type
\* declared by in, when it is the only call and no write fails.
Alone(in, value) ==
    LET impl == derive_xml_write(in)
    IN  run_to_end(Frame(value, write_as_element(impl, element_names(impl), value,
                                                 ArmTys(in, value.variant), 0))).events

Next ==
    \/ Derive
    \/ Compile
    \/ Call
    \/ VerifyField
    \/ StartElement
    \/ DeclareNamespace
    \/ WriteAsAttribute
    \/ WriteOk
    \/ WriteErr
    \/ FieldWriteAsElement
    \/ ReturnOk

Spec == Init /\ [][Next]_vars

\* ------------------------------------------------- what the declarations say
Indices(n) == [i \in 1..n |-> i]
IsPrefix(s, t) == Len(s) <= Len(t) /\ \A i \in 1..Len(s) : s[i] = t[i]

\* The keys written under xml_serialize on a declaration.
Keys(attrs) ==
    FlatMap(SelectSeq(attrs, LAMBDA a : a.path = MACRO_ATTRIBUTE), LAMBDA a : a.args)

\* The field is marked attribute.
Marked(decl) == \E k \in DOMAIN Keys(decl.attrs) : Keys(decl.attrs)[k] = Path("attribute")

AttributeRole(decls) == SelectSeq(Indices(Len(decls)), LAMBDA i : Marked(decls[i]))
ElementRole(decls) == SelectSeq(Indices(Len(decls)), LAMBDA i : ~Marked(decls[i]))

\* The namespaces a type declares, in the order its annotation writes them.
DeclaredNamespaces(in) ==
    MapSeq(SelectSeq(Keys(in.attrs), LAMBDA m : m.path \in {"default_ns", "ns"}),
           LAMBDA m : IF m.path = "default_ns"
                      THEN [prefix |-> <<>>, uri |-> m.value.elems[1]]
                      ELSE [prefix |-> m.value.elems[1], uri |-> m.value.elems[2]])

\* prefix + ":" + ident under the declared ns_prefix, ident alone without one.
DeclaredName(in, ident) ==
    LET p == SelectSeq(Keys(in.attrs), LAMBDA m : m.path = "ns_prefix")
    IN  IF Len(p) = 0 THEN ident ELSE p[1].value.elems[1] \o <<":">> \o ident

Started == pc \in {"running", "returned"}
TopArm == generated.arms[self.variant]
TopFields == ArmFields(input, self.variant)
TopTys == ArmTys(input, self.variant)
ReturnedOk == pc = "returned" /\ result = Ok
Opens(evs) == Cardinality({ i \in DOMAIN evs : evs[i].kind = "start_element" })
Closes(evs) == Cardinality({ i \in DOMAIN evs : evs[i].kind = "end_element" })

\* The attributes of the present attribute-role fields, in declaration order.
PresentAttributes ==
    MapSeq(SelectSeq(AttributeRole(TopFields), LAMBDA i : Len(self.fields[i]) > 0),
           LAMBDA i : [name |-> ident_to_pascal_case_string(TopFields[i].ident),
                       value |-> self.fields[i][1]])

\* One attribute for every attribute-role field.
AllAttributeNames ==
    MapSeq(AttributeRole(TopFields),
           LAMBDA i : ident_to_pascal_case_string(TopFields[i].ident))

\* ----------------------------------------------------------------- claims
\* C1 as stated: on the root start-element of a record there is one attribute
\* per field marked attribute, in declaration order, named by the PascalCase
\* conversion of the field identifier.
C1_Original ==
    (Started /\ input.data.kind = "Struct" /\ Len(events) >= 1) =>
        MapSeq(events[1].attributes, LAMBDA a : a.name) = AllAttributeNames

\* C1 amended: the attributes on the root start-element of a record are those
\* of the attribute-role fields whose value is present, one each, in
\* declaration order, named by the PascalCase conversion of the field
\* identifier; an absent Option<String> and every element-role field
\* contribute none.
C1_Attributes ==
    (Started /\ input.data.kind = "Struct" /\ Len(events) >= 1) =>
        /\ events[1].kind = "start_element"
        /\ events[1].attributes = PresentAttributes

C1_Witness ==
    /\ ReturnedOk
    /\ input.data.kind = "Struct"
    /\ Len(AttributeRole(input.data.fields)) = 2
    /\ Len(events[1].attributes) = 2
    /\ events[1].attributes[2].name = <<"C","h","a","n","g","e","K","e","y">>

\* C2: the top-level body of a record calls the element-writers of the
\* element-role fields in declaration order, each at most once and none for an
\* attribute-role field, only once the start-element is written and never
\* after the end-element; a write that returns Ok has called every one.
C2_ElementOrder ==
    (Started /\ input.data.kind = "Struct") =>
        /\ IsPrefix(invoked, ElementRole(input.data.fields))
        /\ (Len(invoked) > 0 => Len(events) >= 1 /\ events[1].kind = "start_element")
        /\ (Len(events) >= 1 /\ Opens(events) = Closes(events)
              => invoked = ElementRole(input.data.fields))
        /\ (ReturnedOk => /\ invoked = ElementRole(input.data.fields)
                          /\ events[Len(events)].kind = "end_element")

C2_Witness ==
    /\ ReturnedOk
    /\ input.data.kind = "Struct"
    /\ invoked = <<1, 2>>

\* C3: once a write has failed the call has returned that very error, nothing
\* of the body is left to run, and a call that returned Ok saw no failure.
C3_Abort ==
    /\ (raised # "" => pc = "returned" /\ todo = <<>> /\ result = Err(raised))
    /\ (result.state = "Err" => result.error = raised /\ raised \in WriterErrors)
    /\ (result = Ok => raised = "")

\* A sequence of two items whose second write failed.
C3_Witness ==
    /\ result = Err("WriteZero")
    /\ \E p \in DOMAIN self.fields :
          /\ TopFields[p].ty.container = "Vec"
          /\ Len(self.fields[p]) = 2
          /\ Len(events) >= 2
          /\ events[Len(events)] = characters(self.fields[p][1])

Expanded == pc # "derive" /\ generated.panic = ""

\* C4 as stated: whatever the order of the keys, a default-namespace
\* declaration is the first of the planned operations.
C4_Original ==
    Expanded =>
        \A i \in DOMAIN generated.xmlns_calls :
            generated.xmlns_calls[i].op = "default_ns" => i = 1

\* C4 amended: the planned operations are the default_ns and ns keys of the
\* annotation in the order they are written; the default-namespace
\* declaration is first exactly when no ns key is written before default_ns.
C4_NamespaceOrder ==
    Expanded =>
        /\ MapSeq(generated.xmlns_calls, LAMBDA c : [prefix |-> c.prefix, uri |-> c.uri])
             = DeclaredNamespaces(input)
        /\ \A i \in DOMAIN generated.xmlns_calls :
              generated.xmlns_calls[i].op =
                  (IF SelectSeq(Keys(input.attrs),
                                LAMBDA m : m.path \in {"default_ns", "ns"})[i].path = "ns"
                   THEN "ns" ELSE "default_ns")

C4_Witness ==
    /\ Expanded
    /\ Len(generated.xmlns_calls) = 2
    /\ generated.xmlns_calls[1].op = "ns"
    /\ generated.xmlns_calls[2].op = "default_ns"

ExampleAnnotation ==
    <<XmlSerialize(<<NameValue("default_ns", Lit(UrnA)),
                     NameValue("ns", Tuple(<<<<"t">>, UrnB>>)),
                     NameValue("ns_prefix", Lit(<<"x">>))>>)>>

Wrapped == Started /\ TopArm.shape \in {"Struct", "Named"}

\* C5: in the body of a struct and of a named-field variant every namespace
\* declaration of the type is on the builder before the first attribute is,
\* and the start-element is written with all of them; under default_ns =
\* "urn:a", ns = ("t", "urn:b"), ns_prefix = "x" the root is x:Name with
\* xmlns = urn:a, then xmlns:t = urn:b, then the attributes.
C5_NamespacesFirst ==
    Wrapped =>
        /\ (Len(events) = 0 /\ builder.attributes # <<>>
              => builder.namespaces = DeclaredNamespaces(input))
        /\ (Len(events) >= 1
              => /\ events[1].kind = "start_element"
                 /\ events[1].namespaces = DeclaredNamespaces(input)
                 /\ events[1].attributes = PresentAttributes)
        /\ (Len(events) >= 1 /\ input.attrs = ExampleAnnotation
              => /\ events[1].name = <<"x", ":">> \o (IF TopArm.shape = "Struct"
                                                      THEN input.ident ELSE TopArm.variant)
                 /\ events[1].namespaces = << [prefix |-> <<>>, uri |-> UrnA],
                                              [prefix |-> <<"t">>, uri |-> UrnB] >>)

C5_Witness ==
    /\ ReturnedOk
    /\ input.attrs = ExampleAnnotation
    /\ input.data.kind = "Struct"
    /\ events[1].name = <<"x",":","T","y","p","e","N","a","m","e">>
    /\ Len(events[1].namespaces) = 2
    /\ Len(events[1].attributes) = 1

\* C6 as stated: for every declared prefix, the empty one included, the
\* element name is derived without failing the build, as prefix + ":" + name,
\* and as the name alone without a prefix.
C6_Total ==
    /\ diag # "evaluation of constant value failed"
    /\ (Started /\ TopArm.shape \in {"Struct", "Named", "Unit"}
          => names[self.variant] =
                DeclaredName(input, IF TopArm.shape = "Named" THEN TopArm.variant
                                                              ELSE input.ident))

\* The characters of ident that are not underscores, by position.
KeptPositions(ident) == SelectSeq(Indices(Len(ident)), LAMBDA p : ident[p] # "_")

PascalCaseOf(ident, out) ==
    LET kept == KeptPositions(ident)
    IN  /\ Len(out) = Len(kept)
        /\ Len(out) = Len(ident) - Cardinality({ p \in DOMAIN ident : ident[p] = "_" })
        /\ \A k \in DOMAIN out :
              /\ out[k] # "_"
              /\ out[k] = IF kept[k] = 1 \/ ident[kept[k] - 1] = "_"
                          THEN to_ascii_uppercase(ident[kept[k]])
                          ELSE ident[kept[k]]

\* C7: every attribute name the macro generates is the field identifier
\* without its underscores, with the first character and each character after
\* a removed underscore upper-cased and the others unchanged, in order.
C7_PascalCase ==
    Expanded =>
        \A i \in DOMAIN generated.arms :
            \A k \in DOMAIN generated.arms[i].attribute_calls :
                LET call == generated.arms[i].attribute_calls[k]
                IN  PascalCaseOf(ArmFields(input, i)[call.accessor].ident, call.attr_name)

C7_Witness ==
    /\ Expanded
    /\ input.data.kind = "Struct"
    /\ Len(input.data.fields) = 1
    /\ input.data.fields[1].ident = <<"_", "a", "_", "a">>
    /\ generated.arms[1].attribute_calls[1].attr_name = <<"A", "A">>

\* C8: a write of an all-unit enum that returns Ok has written three events:
\* the start-element named after the enum under its ns_prefix, with the
\* type's namespace declarations and no attribute, the characters of the
\* matched variant's identifier, and the end-element.
C8_UnitEnum ==
    (ReturnedOk /\ TopArm.shape = "Unit") =>
        events = << XmlEvent("start_element", DeclaredName(input, input.ident),
                             DeclaredNamespaces(input), <<>>),
                    characters(input.data.variants[self.variant].ident),
                    end_element >>

C8_Witness ==
    /\ ReturnedOk
    /\ TopArm.shape = "Unit"
    /\ self.variant = 2
    /\ input.attrs = ExampleAnnotation
    /\ events[1].name = <<"x",":","T","y","p","e","N","a","m","e">>
    /\ events[2].name = <<"D","i","s","t","i","n","g","u","i","s","h","e","d","F","o","l","d","e","r","I","d">>

\* What the element-writer of one field writes when no write fails.
ItemEvents(item, ty) ==
    IF ty.item = "String" THEN <<characters(item)>>
    ELSE << XmlEvent("start_element", <<"t", ":">> \o BaseShape.ident, <<>>, <<>>),
            characters(item), end_element >>

FieldEvents(value, ty) == FlatMap(value, LAMBDA item : ItemEvents(item, ty))

FieldsEvents(decls, values) ==
    FlatMap(Indices(Len(decls)), LAMBDA i : FieldEvents(values[i], decls[i].ty))

\* C9: the body of a positional-field variant writes what its fields'
\* element-writers write, in field order, and nothing of its own; it returns
\* Ok when none of them fails.
C9_Positional ==
    (Started /\ TopArm.shape = "Unnamed") =>
        /\ IsPrefix(events, FieldsEvents(TopFields, self.fields))
        /\ (ReturnedOk => events = FieldsEvents(TopFields, self.fields))
        /\ (pc = "returned" /\ raised = "" => result = Ok)

C9_Witness ==
    /\ ReturnedOk
    /\ TopArm.shape = "Unnamed"
    /\ Len(TopFields) = 2
    /\ Len(events) = 4
    /\ events[1].kind = "start_element"
    /\ events[4].kind = "characters"

RemoveAt(s, p) == [i \in 1..(Len(s) - 1) |-> IF i < p THEN s[i] ELSE s[i + 1]]

\* The record declared by in without its field at position p, and a value of
\* it without that field's value.
WithoutField(in, p) == [in EXCEPT !.data.fields = RemoveAt(@, p)]
WithoutValue(value, p) == [value EXCEPT !.fields = RemoveAt(@, p)]

Absent(p) == TopFields[p].ty.container = "Option" /\ self.fields[p] = <<>>
Present(p) == TopFields[p].ty.container = "Option" /\ Len(self.fields[p]) = 1

\* C11: a record written with an optional field that is None, in the element
\* role or the attribute role, returns Ok with the events that the same record
\* declared without that field writes for the remaining values; an optional
\* field that is Some is written exactly once, as the one attribute or the
\* one item of its contained value.
C11_OptionalAbsent ==
    (ReturnedOk /\ TopArm.shape # "Unit") =>
        \A p \in DOMAIN TopFields :
            /\ (Absent(p) /\ input.data.kind = "Struct"
                  => events = Alone(WithoutField(input, p), WithoutValue(self, p)))
            /\ (Present(p) /\ Marked(TopFields[p])
                  => Cardinality({ k \in DOMAIN events[1].attributes :
                                     events[1].attributes[k].value = self.fields[p][1] }) = 1)
            /\ (Present(p) /\ ~Marked(TopFields[p])
                  => Cardinality({ k \in DOMAIN events :
                                     events[k] = characters(self.fields[p][1]) }) = 1)

\* The first field is an absent optional element, the second a present one.
C11_Witness ==
    /\ ReturnedOk
    /\ input.data.kind = "Struct"
    /\ Len(TopFields) = 2
    /\ ElementRole(TopFields) = <<1, 2>>
    /\ Absent(1)
    /\ Present(2)
    /\ Len(events) = 3
    /\ events[2] = characters(self.fields[2][1])

\* The declarations and the values of the element-role fields of the value
\* being written.
ElementDecls == MapSeq(ElementRole(TopFields), LAMBDA i : TopFields[i])
ElementValues == MapSeq(ElementRole(TopFields), LAMBDA i : self.fields[i])

\* The only element-role field is a sequence, at position p.
OnlySequence(p) ==
    /\ ElementRole(TopFields) = <<p>>
    /\ TopFields[p].ty.container = "Vec"

Texts(evs) == Cardinality({ k \in DOMAIN evs : evs[k].kind = "characters" })

\* C12 as stated: a sequence written as the only element-role field of a
\* record puts as many elements inside the root as it has items.
C12_Original ==
    (ReturnedOk /\ Wrapped) =>
        \A p \in DOMAIN TopFields :
            OnlySequence(p) => Opens(events) - 1 = Len(self.fields[p])

\* C12 amended: between the root's start-element and end-element a write
\* that returns Ok has written, for each element-role field in order and for
\* each item of it in index order, what the item's own element-writer writes,
\* once: one element for an item of a derived type, one characters event and
\* no element for a String; an empty sequence writes no event.
C12_Sequence ==
    (ReturnedOk /\ Wrapped) =>
        /\ events = <<events[1]>> \o FieldsEvents(ElementDecls, ElementValues)
                                  \o <<end_element>>
        /\ \A p \in DOMAIN TopFields :
              OnlySequence(p) =>
                  IF TopFields[p].ty.item = "String"
                  THEN Opens(events) - 1 = 0 /\ Texts(events) = Len(self.fields[p])
                  ELSE Opens(events) - 1 = Len(self.fields[p])

\* A sequence of two items of a derived type, written in index order.
C12_Witness ==
    /\ ReturnedOk
    /\ input.data.kind = "Struct"
    /\ OnlySequence(1)
    /\ TopFields[1].ty.item = "BaseShape"
    /\ Len(self.fields[1]) = 2
    /\ Len(events) = 8
    /\ events[3] = characters(self.fields[1][1])
    /\ events[6] = characters(self.fields[1][2])

\* evs is one element: it opens with a start-element that only its last
\* event, an end-element, closes.
OneRoot(evs) ==
    /\ Len(evs) >= 2
    /\ evs[1].kind = "start_element"
    /\ evs[Len(evs)].kind = "end_element"
    /\ Opens(evs) = Closes(evs)
    /\ \A k \in 1..(Len(evs) - 1) : Opens(SubSeq(evs, 1, k)) > Closes(SubSeq(evs, 1, k))

\* C13 as stated: every write of a value of a derived type that returns Ok
\* has written exactly one root element.
C13_Original == ReturnedOk => OneRoot(events)

\* C13 amended: a write that returns Ok has written exactly one root element
\* when the value is a struct, a variant of an all-unit enum or a named-field
\* variant; for a positional-field variant it has written the events of the
\* variant's fields and no element of its own.
C13_OneRoot ==
    ReturnedOk =>
        IF TopArm.shape = "Unnamed"
        THEN events = FieldsEvents(TopFields, self.fields)
        ELSE OneRoot(events)

\* A struct whose root holds three child elements.
C13_Witness ==
    /\ ReturnedOk
    /\ input.data.kind = "Struct"
    /\ Opens(events) = 4
    /\ OneRoot(events)

\* ------------------------------------------- two calls on two writers
\* The types whose values the two calls write: a struct with namespaces, an
\* optional attribute and a sequence of elements, and an enum with a
\* positional-field and a named-field variant.
PairInputs ==
    { DeriveInput(TypeName, ExampleAnnotation,
                  StructData("Named",
                             << FieldDecl(FieldIdents[1], Attribute, Ty("Option", "String")),
                                FieldDecl(FieldIdents[3], <<>>, Ty("Vec", "BaseShape")) >>)),
      DeriveInput(TypeName, <<>>,
                  EnumData(<< Variant(VariantIdents[1], "Unnamed",
                                      <<FieldDecl(<<>>, <<>>, Ty("Vec", "String"))>>),
                              Variant(VariantIdents[3], "Named", Fixed2) >>)) }

InitPair ==
    /\ input \in PairInputs
    /\ pc = "derive"
    /\ generated = Panicked("")
    /\ diag = ""
    /\ names = <<>>
    /\ self = NoValue
    /\ todo = <<>>
    /\ builder = start_element(<<>>)
    /\ events = <<>>
    /\ raised = ""
    /\ result = Pending
    /\ invoked = <<>>
    /\ second = NotCalled
    /\ NoClients

first == <<input, pc, generated, diag, names, self, todo, builder, events, raised,
           result, invoked>>

\* write_as_element is called on another value with another writer, before,
\* while or after the first call runs.
SecondCall ==
    /\ pc \in {"compiled", "running", "returned"}
    /\ second = NotCalled
    /\ \E v \in Values(input) :
          second' = Frame(v, write_as_element(generated, names, v,
                                              ArmTys(input, v.variant), 0))
    /\ UNCHANGED <<clients, first>>

\* mutant: the builder in the making is one object that both calls use
SecondStepShared ==
    /\ second.todo # <<>>
    /\ second' = run_statement([second EXCEPT !.builder = builder])
    /\ UNCHANGED <<clients, first>>

\* The second call runs its next statement; its writer accepts the event.
SecondStep ==
    /\ second.todo # <<>>
    /\ second' = run_statement(second)
    /\ UNCHANGED <<clients, first>>

\* The second call's writer fails: the ? returns the error at once.
SecondWriteErr ==
    /\ second.todo # <<>>
    /\ Head(second.todo).op \in {"write_builder", "characters", "end_element"}
    /\ \E e \in WriterErrors :
          second' = [second EXCEPT !.todo = <<>>, !.raised = e, !.result = Err(e)]
    /\ UNCHANGED <<clients, first>>

NextPair ==
    \/ Next
    \/ SecondCall
    \/ SecondStep
    \/ SecondWriteErr

SpecPair == InitPair /\ [][NextPair]_vars

SecondCalled == second.self # NoValue

C15_Independent ==
    /\ Started =>
          /\ IsPrefix(events, Alone(input, self))
          /\ (ReturnedOk => events = Alone(input, self))
          /\ (raised # "" => Len(events) < Len(Alone(input, self)))
    /\ SecondCalled =>
          /\ IsPrefix(second.events, Alone(input, second.self))
          /\ (second.result = Ok => second.events = Alone(input, second.self))
          /\ (second.raised # "" => Len(second.events) < Len(Alone(input, second.self)))

\* Both calls are under way, each with events of its own value written.
C15_Witness ==
    /\ pc = "running"
    /\ second.result = Pending
    /\ second.todo # <<>>
    /\ second.self # self
    /\ Len(events) >= 2
    /\ Len(second.events) >= 2
    /\ events # second.events

\* ---------------------------------------------------- build-time rejections
\* Every field declaration of the type, those of its variants included.
AllFields(in) ==
    IF in.data.kind = "Enum"
    THEN FlatMap(in.data.variants, LAMBDA v : v.fields)
    ELSE in.data.fields

TypeKeys == {"default_ns", "ns", "ns_prefix"}
FieldKeys == {"attribute"}

\* Some key written under xml_serialize on the type, or on one of its fields,
\* is not a key of that level.
UnrecognizedTypeKey(in) ==
    \E k \in DOMAIN Keys(in.attrs) : Keys(in.attrs)[k].path \notin TypeKeys
UnrecognizedFieldKey(in) ==
    \E i \in DOMAIN AllFields(in) :
        \E k \in DOMAIN Keys(AllFields(in)[i].attrs) :
            Keys(AllFields(in)[i].attrs)[k].path \notin FieldKeys

Derived == pc # "derive"
Rejected == pc = "build_error" /\ generated.panic # ""

\* C16 as stated: a type with an unrecognized key under xml_serialize, on the
\* type or on a field, is rejected by the macro.
C16_Unrecognized ==
    (Derived /\ (UnrecognizedTypeKey(input) \/ UnrecognizedFieldKey(input))) => Rejected

\* How often key is written under xml_serialize on the type.
CountKey(in, key) ==
    Cardinality({ k \in DOMAIN Keys(in.attrs) : Keys(in.attrs)[k].path = key })

\* The type carries at most one xml_serialize annotation, of legal syntax,
\* whose keys are default_ns = uri, ns = (prefix, uri) and ns_prefix = prefix.
WellFormedTypeKeys(in) ==
    /\ Len(SelectSeq(in.attrs, LAMBDA a : a.path = MACRO_ATTRIBUTE)) <= 1
    /\ \A i \in DOMAIN in.attrs : in.attrs[i].path = MACRO_ATTRIBUTE => in.attrs[i].legal
    /\ \A k \in DOMAIN Keys(in.attrs) :
          LET m == Keys(in.attrs)[k]
          IN  /\ m.kind = "NameValue"
              /\ m.path \in TypeKeys
              /\ m.path = "ns" => m.value.kind = "Tuple" /\ Len(m.value.elems) = 2

ParseAborted == pc = "build_error" /\ diag = "Unable to parse component attributes"

\* C17: a type annotation with two default_ns keys or two ns_prefix keys,
\* next to each other or not, makes the macro abort while parsing the
\* annotation, and no writer exists; a well-formed annotation with at most
\* one of each and any number of ns keys is parsed without error.
C17_Duplicates ==
    Derived =>
        /\ (CountKey(input, "default_ns") > 1 \/ CountKey(input, "ns_prefix") > 1)
              => ParseAborted /\ generated.arms = <<>>
        /\ (/\ WellFormedTypeKeys(input)
            /\ CountKey(input, "default_ns") <= 1
            /\ CountKey(input, "ns_prefix") <= 1)
              => ~ParseAborted

\* Two default_ns keys with an ns key between them.
C17_Witness ==
    /\ ParseAborted
    /\ Len(Keys(input.attrs)) = 3
    /\ Keys(input.attrs)[1].path = "default_ns"
    /\ Keys(input.attrs)[2].path = "ns"
    /\ Keys(input.attrs)[3].path = "default_ns"

IsEnum == input.data.kind = "Enum"
VariantKinds == { input.data.variants[i].fields_kind : i \in DOMAIN input.data.variants }
Mixed == "Unit" \in VariantKinds /\ VariantKinds # {"Unit"}

\* C18: an enum without variants is rejected by the macro, and so is an enum
\* with a unit variant and a non-unit variant, whichever comes first; an enum
\* the macro accepts has at least one variant and only unit variants or only
\* non-unit variants.
C18_Uniform ==
    (Derived /\ IsEnum) =>
        /\ (input.data.variants = <<>> => Rejected /\ generated.arms = <<>>)
        /\ (Mixed => Rejected /\ generated.arms = <<>>)
        /\ (generated.panic = "" =>
               /\ input.data.variants # <<>>
               /\ VariantKinds = {"Unit"} \/ "Unit" \notin VariantKinds)

\* The first variant has named fields and the second is a unit variant.
C18_Witness ==
    /\ Rejected
    /\ IsEnum
    /\ Len(input.data.variants) = 2
    /\ input.data.variants[1].fields_kind = "Named"
    /\ input.data.variants[2].fields_kind = "Unit"
    /\ diag = "Mixing unit and non-unit variants in an enum is not supported"

\* The positional fields of the type: those of a tuple struct and those of
\* the positional-field variants of an enum.
PositionalFields(in) ==
    IF in.data.kind = "Enum"
    THEN FlatMap(SelectSeq(in.data.variants, LAMBDA v : v.fields_kind = "Unnamed"),
                 LAMBDA v : v.fields)
    ELSE IF in.data.fields_kind = "Unnamed" THEN in.data.fields ELSE <<>>

PositionalAttribute(in) ==
    \E i \in DOMAIN PositionalFields(in) : Marked(PositionalFields(in)[i])

\* C19: a tuple struct or an enum with a positional field marked attribute is
\* rejected by the macro and no writer exists; the macro never fails inside
\* build_calls_for_fields on the missing identifier of such a field.
C19_PositionalAttribute ==
    Derived =>
        /\ (PositionalAttribute(input) => Rejected /\ generated.arms = <<>>)
        /\ diag # "called Option::unwrap() on a None value"

\* The first variant has a positional field marked attribute.
C19_Witness ==
    /\ Rejected
    /\ IsEnum
    /\ Len(input.data.variants) >= 1
    /\ input.data.variants[1].fields_kind = "Unnamed"
    /\ Len(input.data.variants[1].fields) = 2
    /\ Marked(input.data.variants[1].fields[2])
    /\ diag = "Unnamed fields may not be XML attributes"

HasPositional == "Unnamed" \in VariantKinds

\* The type annotation carries a default_ns, ns or ns_prefix key.
CarriesNamespace(in) ==
    \E k \in DOMAIN Keys(in.attrs) : Keys(in.attrs)[k].path \in TypeKeys

\* Nothing but its annotation can make the macro reject the enum: it does
\* not mix unit and non-unit variants and marks no positional field.
OtherwiseValid == ~Mixed /\ ~PositionalAttribute(input)

\* C20: an enum with a positional-field variant that carries default_ns, ns
\* or ns_prefix is rejected by the macro and no writer exists; when nothing
\* else is wrong with it the rejection is the one for namespace properties,
\* and the same enum without the annotation is accepted with one arm per
\* variant.
C20_PositionalNamespaces ==
    (Derived /\ IsEnum /\ HasPositional) =>
        /\ (CarriesNamespace(input) => Rejected /\ generated.arms = <<>>)
        /\ (CarriesNamespace(input) /\ OtherwiseValid =>
               /\ diag = "Namespace properties may not be applied to enums with variants containing unnamed fields"
               /\ derive_xml_write([input EXCEPT !.attrs = <<>>]).panic = "")
        /\ (input.attrs = <<>> /\ OtherwiseValid =>
               /\ generated.panic = ""
               /\ Len(generated.arms) = Len(input.data.variants))

\* A named-field variant followed by a positional-field variant, under ns.
C20_Witness ==
    /\ Rejected
    /\ IsEnum
    /\ Len(input.data.variants) = 2
    /\ input.data.variants[1].fields_kind = "Named"
    /\ input.data.variants[2].fields_kind = "Unnamed"
    /\ Len(Keys(input.attrs)) = 1
    /\ Keys(input.attrs)[1].path = "ns"
    /\ diag = "Namespace properties may not be applied to enums with variants containing unnamed fields"

\* The variants other than the one written that declare the same fields.
Twins ==
    { j \in DOMAIN input.data.variants :
        /\ j # self.variant
        /\ input.data.variants[j].fields_kind = input.data.variants[self.variant].fields_kind
        /\ input.data.variants[j].fields = input.data.variants[self.variant].fields }

Structured == IsEnum /\ TopArm.shape \in {"Named", "Unnamed"}

C22_WitnessPositional ==
    /\ ReturnedOk
    /\ Structured
    /\ TopArm.shape = "Unnamed"
    /\ Twins # {}
    /\ Len(events) >= 2

\* The body that the call in progress was given to run.
TopBody == write_as_element(generated, names, self, TopTys, 0)

VerifyOps == {"verify_attribute_field", "verify_element_field"}

\* The call has run exactly the first k statements of its body.
RanFirst(k) == pc = "running" /\ todo = SubSeq(TopBody, k + 1, Len(TopBody))

\* C23: the macro generates one capability check for each field of a struct
\* or variant, in declaration order, verify_attribute_field for a field marked
\* attribute and verify_element_field for any other; the checks are the first
\* statements of the generated body and no other statement of it is a check;
\* while they run and when the last has run no event is written, no builder
\* is created and the writer has raised nothing.
C23_Checks ==
    /\ (Derived /\ generated.panic = "") =>
          \A a \in DOMAIN generated.arms :
              LET checks == generated.arms[a].verify_calls
                  decls == ArmFields(input, a)
              IN  /\ Len(checks) = Len(decls)
                  /\ \A k \in DOMAIN checks :
                        /\ checks[k].accessor = k
                        /\ checks[k].fn = IF Marked(decls[k]) THEN "verify_attribute_field"
                                                              ELSE "verify_element_field"
    /\ Started =>
          /\ \A k \in DOMAIN TopBody :
                TopBody[k].op \in VerifyOps <=> k <= Len(TopFields)
          /\ \A k \in 1..Len(TopFields) : TopBody[k].accessor = k
          /\ \A k \in 0..Len(TopFields) :
                RanFirst(k) => /\ events = <<>>
                               /\ builder = start_element(<<>>)
                               /\ raised = ""
                               /\ result = Pending

\* The two checks of a record with an attribute and an element have run and
\* the builder is about to be created.
C23_Witness ==
    /\ Started
    /\ Len(TopFields) = 2
    /\ Marked(TopFields[1])
    /\ ~Marked(TopFields[2])
    /\ RanFirst(2)
    /\ Head(todo).op = "start_element"
    /\ TopBody[1].op = "verify_attribute_field"
    /\ TopBody[2].op = "verify_element_field"

\* C28: at every point of a call of a generated write_as_element, for a
\* struct, a unit enum, a named-field variant and a positional-field variant,
\* the element-writers of the fields included, the call has written at most as
\* many end-element events as start-element events, whether or not a write
\* has failed; when it returns Ok it has written as many of one as of the other.
C28_Balanced ==
    Started =>
        /\ \A k \in 0..Len(events) :
              Closes(SubSeq(events, 1, k)) <= Opens(SubSeq(events, 1, k))
        /\ ReturnedOk => Closes(events) = Opens(events)

\* A record that holds two child elements has been written.
C28_Witness ==
    /\ ReturnedOk
    /\ TopArm.shape = "Struct"
    /\ Opens(events) = 3
    /\ Closes(events) = 3
    /\ events[2].kind = "start_element"

\* C29 as stated: the attributes on the root start-element of a record or a
\* named-field variant, whose fields have different identifiers, have
\* different names.
C29_DistinctNames ==
    (Started /\ TopArm.shape \in {"Struct", "Named"} /\ Len(events) >= 1) =>
        \A i, j \in DOMAIN events[1].attributes :
            i # j => events[1].attributes[i].name # events[1].attributes[j].name

\* ------------------------------------------- the autodiscover request body
MaxEmailLen == 3

\* The schema for POX autodiscovery requests, and the one for responses.
REQUEST_SCHEMA == <<"http://schemas.microsoft.com/exchange/autodiscover/outlook/requestschema/2006">>
RESPONSE_SCHEMA == <<"http://schemas.microsoft.com/exchange/autodiscover/outlook/responseschema/2006a">>

\* The addresses a user may enter, after the trim.
Emails == SeqsUpTo({"u", "@", "d"}, MaxEmailLen)

\* mutant: the address is written under the response schema's element
request_body_events_swapped(email) ==
    << StartEvent(builder_default_ns(start_element("Autodiscover"), REQUEST_SCHEMA)),
       StartEvent(start_element("Request")),
       StartEvent(start_element("AcceptableResponseSchema")),
       characters(email),
       end_element,
       StartEvent(start_element("EMailAddress")),
       characters(RESPONSE_SCHEMA),
       end_element,
       end_element,
       end_element >>

\* The vec of events generate_autodiscover_request_body writes.
request_body_events(email) ==
    << StartEvent(builder_default_ns(start_element("Autodiscover"), REQUEST_SCHEMA)),
       StartEvent(start_element("Request")),
       StartEvent(start_element("EMailAddress")),
       characters(email),
       end_element,
       StartEvent(start_element("AcceptableResponseSchema")),
       characters(RESPONSE_SCHEMA),
       end_element,
       end_element,
       end_element >>

\* generate_autodiscover_request_body(email) is called: buf is empty and the
\* events are still to be written.
Generating(email) ==
    [pc |-> "writing", email |-> email, todo |-> request_body_events(email),
     events |-> <<>>, result |-> Pending]

\* for evt in events: writer.write(evt) accepts the event.
WriteEvent ==
    /\ document.pc = "writing"
    /\ document.todo # <<>>
    /\ document' = [document EXCEPT !.events = Append(@, Head(document.todo)),
                                    !.todo = Tail(@)]
    /\ UNCHANGED <<first, second, client, parser, channel, stream, example>>

\* writer.write(evt)? fails: the error is returned and the loop is left.
WriteEventErr ==
    /\ document.pc = "writing"
    /\ document.todo # <<>>
    /\ \E e \in WriterErrors :
          document' = [document EXCEPT !.pc = "returned", !.result = Err(e)]
    /\ UNCHANGED <<first, second, client, parser, channel, stream, example>>

\* Every event is written: the buffer is returned as a string.
ReturnBody ==
    /\ document.pc = "writing"
    /\ document.todo = <<>>
    /\ document' = [document EXCEPT !.pc = "returned", !.result = Ok]
    /\ UNCHANGED <<first, second, client, parser, channel, stream, example>>

\* The number of elements open before event j of evs.
DepthAt(evs, j) == Opens(SubSeq(evs, 1, j - 1)) - Closes(SubSeq(evs, 1, j - 1))

\* The start-element event that event j of evs lies directly in, or 0.
ParentOf(evs, j) ==
    LET above == { i \in 1..(j - 1) : /\ evs[i].kind = "start_element"
                                      /\ DepthAt(evs, i) = DepthAt(evs, j) - 1 }
    IN  IF above = {} THEN 0 ELSE CHOOSE i \in above : \A k \in above : k <= i

\* The default namespace a start-element event declares, or the empty string.
DefaultNs(ev) ==
    LET declared == SelectSeq(ev.namespaces, LAMBDA n : n.prefix = <<>>)
    IN  IF declared = <<>> THEN <<>> ELSE declared[Len(declared)].uri

\* The elements of a document in document order: name, depth, default
\* namespace and the texts directly inside.
ElementsOf(evs) ==
    MapSeq(SelectSeq(Indices(Len(evs)), LAMBDA i : evs[i].kind = "start_element"),
           LAMBDA i : [name |-> evs[i].name,
                       depth |-> DepthAt(evs, i),
                       default_ns |-> DefaultNs(evs[i]),
                       texts |-> MapSeq(SelectSeq(Indices(Len(evs)),
                                                  LAMBDA j : /\ evs[j].kind = "characters"
                                                             /\ ParentOf(evs, j) = i),
                                        LAMBDA j : evs[j].name)])

\* Every end tag closes an open element, and on return none is left open.
WellNested(evs, done) ==
    /\ \A j \in 0..Len(evs) : Closes(SubSeq(evs, 1, j)) <= Opens(SubSeq(evs, 1, j))
    /\ done => Closes(evs) = Opens(evs)

\* C21: for every email address, the document generate_autodiscover_request_body
\* returns has exactly these elements, in this order: Autodiscover at depth 0
\* with REQUEST_SCHEMA as default namespace, Request at depth 1, EMailAddress
\* at depth 2 with the address as text, AcceptableResponseSchema at depth 2
\* with RESPONSE_SCHEMA as text; every element is closed.
C21_RequestBody ==
    /\ document.pc # "idle" => WellNested(document.events, document.result = Ok)
    /\ document.result = Ok =>
          ElementsOf(document.events) =
              << [name |-> "Autodiscover", depth |-> 0, default_ns |-> REQUEST_SCHEMA,
                  texts |-> <<>>],
                 [name |-> "Request", depth |-> 1, default_ns |-> <<>>, texts |-> <<>>],
                 [name |-> "EMailAddress", depth |-> 2, default_ns |-> <<>>,
                  texts |-> <<document.email>>],
                 [name |-> "AcceptableResponseSchema", depth |-> 2, default_ns |-> <<>>,
                  texts |-> <<RESPONSE_SCHEMA>>] >>

\* The body for the address u@d has been returned.
C21_Witness ==
    /\ document.result = Ok
    /\ document.email = <<"u", "@", "d">>
    /\ Len(document.events) = 10

\* ------------------------------------------- the autodiscover response
\* The events of xml::reader that the parser matches on; every other event
\* falls in the last arm.
reader_StartElement(name) == [kind |-> "StartElement", name |-> name]
reader_EndElement(name) == [kind |-> "EndElement", name |-> name]
reader_Characters(text) == [kind |-> "Characters", name |-> text]
reader_Whitespace == [kind |-> "Whitespace", name |-> <<>>]

\* The locals of get_url_from_autodiscover_response before the loop.
Flags == [in_account |-> FALSE, in_protocol |-> FALSE, in_as_url |-> FALSE, url |-> <<>>]

\* The body of the loop: match e.
match_event(st, e) ==
    CASE e.kind = "StartElement" /\ e.name = "Account" -> [st EXCEPT !.in_account = TRUE]
      [] e.kind = "StartElement" /\ e.name = "Protocol" ->
             [st EXCEPT !.in_protocol = st.in_account \/ @]
      [] e.kind = "StartElement" /\ e.name = "ASUrl" ->
             [st EXCEPT !.in_as_url = st.in_protocol \/ @]
      [] e.kind = "EndElement" /\ e.name = "Account" -> [st EXCEPT !.in_account = FALSE]
      [] e.kind = "EndElement" /\ e.name = "Protocol" -> [st EXCEPT !.in_protocol = FALSE]
      [] e.kind = "EndElement" /\ e.name = "ASUrl" -> [st EXCEPT !.in_as_url = FALSE]
      [] e.kind = "Characters" -> [st EXCEPT !.url = IF st.in_as_url THEN e.name ELSE @]
      [] OTHER -> st

\* for e in parser { match e } over the events of a whole response; Ok(url).
get_url_from_autodiscover_response(res) ==
    LET F[i \in 0..Len(res)] == IF i = 0 THEN Flags ELSE match_event(F[i - 1], res[i])
    IN  F[Len(res)].url

MaxDepth == 4
ElementNames == {"Account", "Protocol", "ASUrl", "Response"}
ResponseStrings == {<<"e", "w", "s">>, <<"x">>}

\* The function is called on a response: the locals before the loop.
Scanning ==
    [pc |-> "scanning", open |-> <<>>, in_account |-> FALSE, in_protocol |-> FALSE,
     in_as_url |-> FALSE, url |-> <<>>, returned |-> <<>>]

\* The locals the loop body works on, and the parser after the body has run.
Locals == [in_account |-> parser.in_account, in_protocol |-> parser.in_protocol,
           in_as_url |-> parser.in_as_url, url |-> parser.url]
Matched(e, open) ==
    LET st == match_event(Locals, e)
    IN  [parser EXCEPT !.open = open, !.in_account = st.in_account,
                       !.in_protocol = st.in_protocol, !.in_as_url = st.in_as_url,
                       !.url = st.url]

\* The reader yields the start tag of an element.
ParseStart ==
    /\ parser.pc = "scanning"
    /\ Len(parser.open) < MaxDepth
    /\ \E name \in ElementNames :
          parser' = Matched(reader_StartElement(name), Append(parser.open, name))
    /\ UNCHANGED <<first, second, document, client, channel, stream, example>>

\* The reader yields the end tag of the innermost open element.
ParseEnd ==
    /\ parser.pc = "scanning"
    /\ parser.open # <<>>
    /\ parser' = Matched(reader_EndElement(parser.open[Len(parser.open)]),
                         SubSeq(parser.open, 1, Len(parser.open) - 1))
    /\ UNCHANGED <<first, second, document, client, channel, stream, example>>

\* The reader yields the text of the innermost open element.
ParseCharacters ==
    /\ parser.pc = "scanning"
    /\ parser.open # <<>>
    /\ \E text \in ResponseStrings : parser' = Matched(reader_Characters(text), parser.open)
    /\ UNCHANGED <<first, second, document, client, channel, stream, example>>

\* The reader yields an event of another kind.
ParseOther ==
    /\ parser.pc = "scanning"
    /\ parser' = Matched(reader_Whitespace, parser.open)
    /\ UNCHANGED <<first, second, document, client, channel, stream, example>>

\* The document is over: Ok(url).
ParseReturn ==
    /\ parser.pc = "scanning"
    /\ parser.open = <<>>
    /\ parser' = [parser EXCEPT !.pc = "returned", !.returned = parser.url]
    /\ UNCHANGED <<first, second, document, client, channel, stream, example>>

\* The open elements hold the names of path in that order, outermost first.
Inside(open, path) ==
    \E pos \in [1..Len(path) -> DOMAIN open] :
        /\ \A k \in 1..Len(path) : open[pos[k]] = path[k]
        /\ \A k \in 1..(Len(path) - 1) : pos[k] < pos[k + 1]

\* C26 as stated: at every point of the scan in_account, in_protocol and
\* in_as_url say whether the position is inside an Account, inside a Protocol
\* inside an Account, and inside an ASUrl inside a Protocol inside an Account,
\* also when elements of the same name are nested.
C26_Flags ==
    parser.pc = "scanning" =>
        /\ parser.in_account <=> Inside(parser.open, <<"Account">>)
        /\ parser.in_protocol <=> Inside(parser.open, <<"Account", "Protocol">>)
        /\ parser.in_as_url <=> Inside(parser.open, <<"Account", "Protocol", "ASUrl">>)

\* --------------------------------------------- the autodiscover client
UNAUTHORIZED == 401
StatusCodes == {200, UNAUTHORIZED, 403, 500}
Passwords == {<<>>, <<"p">>}

\* The bodies a server may answer with, as the events a reader makes of them.
ResponseTexts ==
    { <<>>,
      << reader_StartElement("Account"), reader_StartElement("Protocol"),
         reader_StartElement("ASUrl"), reader_Characters(<<"e", "w", "s">>),
         reader_EndElement("ASUrl"), reader_EndElement("Protocol"),
         reader_EndElement("Account") >> }

\* address.split('@').last(): what follows the last @, the whole without one.
domain_of(address) ==
    LET ats == { i \in DOMAIN address : address[i] = "@" }
        from == IF ats = {} THEN 0 ELSE CHOOSE i \in ats : \A k \in ats : k <= i
    IN  SubSeq(address, from + 1, Len(address))

\* mutant: the password is not put on the request
build_request_without_auth(address, password) ==
    [url |-> <<"https://autodiscover.">> \o domain_of(address)
             \o <<"/autodiscover/autodiscover.xml">>,
     content_type |-> "text/xml; charset=utf-8",
     body |-> request_body_events(address),
     basic_auth |-> None]

\* The request build_request returns when nothing fails.
build_request(address, password) ==
    [url |-> <<"https://autodiscover.">> \o domain_of(address)
             \o <<"/autodiscover/autodiscover.xml">>,
     content_type |-> "text/xml; charset=utf-8",
     body |-> request_body_events(address),
     basic_auth |-> IF password.some THEN Some(<<address, password.v>>) ELSE None]

\* main has read and trimmed the address.
Entered(address) ==
    [pc |-> "build", address |-> address, password |-> None, req |-> None,
     executed |-> <<>>, statuses |-> <<>>, res_txt |-> <<>>, stdout |-> <<>>,
     result |-> Pending]

\* A ? in main returns the error: the run is over.
Exit(outcome) == [client EXCEPT !.pc = "exited", !.result = outcome]

\* build_request(&client, &address, password)?: the request, or the error
\* of generating the body or of building the request.
Build(at, then) ==
    /\ client.pc = at
    /\ \/ client' = [client EXCEPT !.pc = then,
                                   !.req = Some(build_request(client.address, client.password))]
       \/ client' = Exit(Err("build_request"))
    /\ UNCHANGED <<first, second, document, parser, channel, stream, example>>

\* client.execute(req).await?: the response, or the error of sending.
Execute(at, then401, then) ==
    /\ client.pc = at
    /\ \/ \E status \in StatusCodes, text \in ResponseTexts :
             client' = [client EXCEPT !.pc = IF status = UNAUTHORIZED THEN then401 ELSE then,
                                      !.executed = Append(@, client.req.v),
                                      !.statuses = Append(@, status),
                                      !.res_txt = text]
       \/ client' = [Exit(Err("execute")) EXCEPT !.executed = Append(@, client.req.v)]
    /\ UNCHANGED <<first, second, document, parser, channel, stream, example>>

\* let mut req = build_request(&client, &address, None)?;
BuildFirst == Build("build", "execute")

\* let mut res = client.execute(req).await?;
ExecuteFirst == Execute("execute", "prompt", "report")

\* The response is 401: the password is asked for and read.
Prompt ==
    /\ client.pc = "prompt"
    /\ \/ \E password \in Passwords :
             client' = [client EXCEPT !.pc = "build_again", !.password = Some(password)]
       \/ client' = Exit(Err("read_password"))
    /\ UNCHANGED <<first, second, document, parser, channel, stream, example>>

\* req = build_request(&client, &address, Some(password))?;
BuildSecond == Build("build_again", "execute_again")

\* res = client.execute(req).await?;
ExecuteSecond == Execute("execute_again", "report", "report")

\* The status of the last response is checked and reported, with the url
\* found in the body or with the body.
Report ==
    /\ client.pc = "report"
    /\ LET status == client.statuses[Len(client.statuses)]
       IN  IF status = 200
           THEN \/ client' = [Exit(Ok) EXCEPT !.stdout =
                                 <<[what |-> "EWS endpoint URL",
                                    value |-> get_url_from_autodiscover_response(client.res_txt)]>>]
                \/ client' = Exit(Err("text"))
           ELSE \/ client' = [Exit(Ok) EXCEPT !.stdout =
                                 <<[what |-> "Failed to retrieve EWS endpoint",
                                    value |-> status]>>
                                 \o IF client.res_txt = <<>> THEN <<>>
                                    ELSE <<[what |-> "Response body", value |-> client.res_txt]>>]
                \/ client' = [Exit(Err("text")) EXCEPT !.stdout =
                                 <<[what |-> "Failed to retrieve EWS endpoint",
                                    value |-> status]>>]
    /\ UNCHANGED <<first, second, document, parser, channel, stream, example>>

Exited == client.pc = "exited"
FirstStatus == IF client.statuses = <<>> THEN 0 ELSE client.statuses[1]
LastStatus == IF client.statuses = <<>> THEN 0 ELSE client.statuses[Len(client.statuses)]

\* What a run that reports prints first: the url found in the body of a 200
\* response, or the status of any other response.
Reported ==
    /\ client.stdout # <<>>
    /\ client.stdout[1] =
          IF LastStatus = 200
          THEN [what |-> "EWS endpoint URL",
                value |-> get_url_from_autodiscover_response(client.res_txt)]
          ELSE [what |-> "Failed to retrieve EWS endpoint", value |-> LastStatus]

\* At most two requests; the first without Basic authentication, the second
\* only after a 401 and with the address and the password entered.
TwoRequests ==
    /\ Len(client.executed) <= 2
    /\ Len(client.executed) >= 1 => ~client.executed[1].basic_auth.some
    /\ Len(client.executed) = 2 =>
          /\ FirstStatus = UNAUTHORIZED
          /\ client.password.some
          /\ client.executed[2].basic_auth = Some(<<client.address, client.password.v>>)

\* C25 as stated: at most two requests, the second if and only if the first
\* response is 401, and every run ends by reporting the url or the status.
C25_Original ==
    /\ TwoRequests
    /\ Exited => /\ (Len(client.executed) = 2 <=> FirstStatus = UNAUTHORIZED)
                 /\ Reported

\* C25 amended: at most two requests are sent, the first without Basic
\* authentication, the second only after a 401 first response and with the
\* address and the entered password; a run in which no step fails sends the
\* second request exactly when the first response is 401, gets a response to
\* every request and ends by reporting the url of a 200 response or the
\* status of any other, 401 included; a run in which a step fails ends with
\* that error, never reports a url, and has sent no request after the failure.
C25_TwoRequests ==
    /\ TwoRequests
    /\ (Exited /\ client.result = Ok) =>
          /\ (Len(client.executed) = 2 <=> FirstStatus = UNAUTHORIZED)
          /\ Len(client.statuses) = Len(client.executed)
          /\ Reported
    /\ (Exited /\ client.result # Ok) =>
          /\ client.result.state = "Err"
          /\ \A k \in DOMAIN client.stdout : client.stdout[k].what # "EWS endpoint URL"
          /\ client.result.error = "execute" =>
                Len(client.executed) = Len(client.statuses) + 1
          /\ client.result.error \in {"build_request", "read_password", "text"} =>
                Len(client.executed) = Len(client.statuses)

\* Both responses were 401: the run ended after the second, reporting 401.
C25_Witness ==
    /\ Exited
    /\ client.result = Ok
    /\ client.statuses = <<UNAUTHORIZED, UNAUTHORIZED>>
    /\ Len(client.executed) = 2
    /\ client.executed[2].basic_auth.some
    /\ client.stdout[1].value = UNAUTHORIZED

\* ------------------------------------------------------ the HTTP client
Methods == {"GET", "POST", "get"}
RequestBodies == {<<>>, <<"b">>}
NsErrors == {"NS_ERROR_FAILURE", "NS_ERROR_OUT_OF_MEMORY"}

\* request(method, url, request_body, content_type, listener) is called.
Requesting(method, request_body) ==
    [pc |-> "iosrv", method |-> method, request_body |-> request_body, calls |-> <<>>,
     upload |-> None, result |-> Pending]

\* mutant: a body is uploaded whatever the method
has_upload_any_method(method, request_body) == request_body # <<>>

\* !(*request_body).is_empty() && *method != nsCString::from("GET")
has_upload(method, request_body) == request_body # <<>> /\ method # "GET"

\* A step of request was made and succeeded: the function goes on at next.
Succeeded(step, next) ==
    [channel EXCEPT !.pc = next, !.calls = Append(@, [step |-> step, ok |-> TRUE])]

\* A step of request was made and failed: its error is returned by the ?.
Failed(step, e) ==
    [channel EXCEPT !.pc = "returned", !.calls = Append(@, [step |-> step, ok |-> FALSE]),
                    !.result = Err(e)]

\* get_service::<nsIIOService>(..).ok_or(NS_ERROR_FAILURE)?
GetIOService ==
    /\ channel.pc = "iosrv"
    /\ \/ channel' = Succeeded("get_service nsIIOService", "scriptsecmgr")
       \/ channel' = Failed("get_service nsIIOService", "NS_ERROR_FAILURE")
    /\ UNCHANGED <<first, second, document, client, parser, stream, example>>

\* get_service::<nsIScriptSecurityManager>(..).ok_or(NS_ERROR_FAILURE)?
GetScriptSecurityManager ==
    /\ channel.pc = "scriptsecmgr"
    /\ \/ channel' = Succeeded("get_service nsIScriptSecurityManager", "principal")
       \/ channel' = Failed("get_service nsIScriptSecurityManager", "NS_ERROR_FAILURE")
    /\ UNCHANGED <<first, second, document, client, parser, stream, example>>

\* getter_addrefs(|p| scriptsecmgr.GetSystemPrincipal(p))?
GetSystemPrincipal ==
    /\ channel.pc = "principal"
    /\ \/ channel' = Succeeded("GetSystemPrincipal", "channel")
       \/ \E e \in NsErrors : channel' = Failed("GetSystemPrincipal", e)
    /\ UNCHANGED <<first, second, document, client, parser, stream, example>>

\* getter_addrefs(|p| iosrv.NewChannel(url, ..))?, then the test for a body.
NewChannel ==
    /\ channel.pc = "channel"
    /\ \/ channel' = Succeeded("NewChannel",
                               IF has_upload(channel.method, channel.request_body)
                               THEN "body_stream" ELSE "open")
       \/ \E e \in NsErrors : channel' = Failed("NewChannel", e)
    /\ UNCHANGED <<first, second, document, client, parser, stream, example>>

\* create_instance::<nsIStringInputStream>(..).ok_or(NS_ERROR_FAILURE)?
CreateBodyStream ==
    /\ channel.pc = "body_stream"
    /\ \/ channel' = Succeeded("create_instance nsIStringInputStream", "upload_channel")
       \/ channel' = Failed("create_instance nsIStringInputStream", "NS_ERROR_FAILURE")
    /\ UNCHANGED <<first, second, document, client, parser, stream, example>>

\* channel.query_interface::<nsIUploadChannel2>().ok_or(NS_ERROR_FAILURE)?
QueryUploadChannel ==
    /\ channel.pc = "upload_channel"
    /\ \/ channel' = Succeeded("query_interface nsIUploadChannel2", "set_data")
       \/ channel' = Failed("query_interface nsIUploadChannel2", "NS_ERROR_FAILURE")
    /\ UNCHANGED <<first, second, document, client, parser, stream, example>>

\* body_stream.SetUTF8Data(request_body).to_result()?
SetUTF8Data ==
    /\ channel.pc = "set_data"
    /\ \/ channel' = Succeeded("SetUTF8Data", "set_upload")
       \/ \E e \in NsErrors : channel' = Failed("SetUTF8Data", e)
    /\ UNCHANGED <<first, second, document, client, parser, stream, example>>

\* upload_channel.ExplicitSetUploadStream(body_stream, content_type, -1,
\* method, false).to_result()?: the channel gets the stream and the method.
ExplicitSetUploadStream ==
    /\ channel.pc = "set_upload"
    /\ \/ channel' = [Succeeded("ExplicitSetUploadStream", "open") EXCEPT
                         !.upload = Some([stream |-> channel.request_body,
                                          method |-> channel.method])]
       \/ \E e \in NsErrors : channel' = Failed("ExplicitSetUploadStream", e)
    /\ UNCHANGED <<first, second, document, client, parser, stream, example>>

\* channel.AsyncOpen(listener).to_result(): its result is the function's.
AsyncOpen ==
    /\ channel.pc = "open"
    /\ \/ channel' = [Succeeded("AsyncOpen", "returned") EXCEPT !.result = Ok]
       \/ \E e \in NsErrors : channel' = Failed("AsyncOpen", e)
    /\ UNCHANGED <<first, second, document, client, parser, stream, example>>

\* The calls of AsyncOpen made so far, by position.
Opened == { k \in DOMAIN channel.calls : channel.calls[k].step = "AsyncOpen" }

\* The steps request makes before it opens the channel.
SetupSteps(upload) ==
    << "get_service nsIIOService", "get_service nsIScriptSecurityManager",
       "GetSystemPrincipal", "NewChannel" >>
    \o IF upload
       THEN << "create_instance nsIStringInputStream", "query_interface nsIUploadChannel2",
               "SetUTF8Data", "ExplicitSetUploadStream" >>
       ELSE <<>>

\* C27: the upload stream and the method are set on the channel only for a
\* non-empty body and a method other than GET, and a channel that is opened
\* has them set exactly then; AsyncOpen is called at most once, as the last
\* call, after every step before it was made and succeeded; a step that fails
\* is the last call made, its error is what request returns, and the channel
\* is not opened.
C27_Request ==
    LET upload == channel.request_body # <<>> /\ channel.method # "GET"
        calls == channel.calls
    IN  /\ channel.upload.some =>
              /\ upload
              /\ channel.upload.v = [stream |-> channel.request_body,
                                     method |-> channel.method]
        /\ Cardinality(Opened) <= 1
        /\ \A k \in Opened :
              /\ k = Len(calls)
              /\ channel.pc = "returned"
              /\ channel.upload.some <=> upload
              /\ MapSeq(SubSeq(calls, 1, k - 1), LAMBDA c : c.step) = SetupSteps(upload)
              /\ \A i \in 1..(k - 1) : calls[i].ok
        /\ \A k \in DOMAIN calls :
              ~calls[k].ok => /\ k = Len(calls)
                              /\ channel.pc = "returned"
                              /\ channel.result.state = "Err"
                              /\ calls[k].step # "AsyncOpen" => Opened = {}
        /\ channel.pc = "returned" =>
              /\ channel.result = Ok <=> (Opened # {} /\ calls[Len(calls)].ok)
              /\ Opened = {} => ~calls[Len(calls)].ok

\* A POST with a body was opened with its upload stream set.
C27_Witness ==
    /\ channel.pc = "returned"
    /\ channel.result = Ok
    /\ channel.method = "POST"
    /\ channel.upload.some
    /\ Len(channel.calls) = 9

\* ------------------------------------------------- the SimpleInputStream
MaxSrcLen == 3
MaxCount == 4

\* The strings a stream is made of.
Sources == { SubSeq(Lower, 1, n) : n \in 0..MaxSrcLen }

Min(a, b) == IF a <= b THEN a ELSE b

\* SimpleInputStream::new(src): cur_index is 0.  last is what the last call
\* of a method returned.
Streaming(src) ==
    [pc |-> "open", src |-> src, cur_index |-> 0, aBuf |-> <<>>,
     last |-> [op |-> "new", aCount |-> 0, before |-> 0, state |-> "Ok", value |-> 0]]

Returned(op, aCount, state, value) ==
    [op |-> op, aCount |-> aCount, before |-> stream.cur_index, state |-> state,
     value |-> value]

\* Read(aBuf, aCount): closed at the end of src; otherwise end and count are
\* computed, aBuf is set to src.substring(cur_index, count) and count is
\* returned.  The method takes &self and assigns nothing to cur_index.
Read ==
    /\ stream.pc = "open"
    /\ \E aCount \in 0..MaxCount :
          IF stream.cur_index = Len(stream.src)
          THEN stream' = [stream EXCEPT
                             !.last = Returned("Read", aCount, "NS_BASE_STREAM_CLOSED", 0)]
          ELSE LET end == Min(stream.cur_index + aCount, Len(stream.src))
                   count == Len(stream.src) - end
               IN  stream' = [stream EXCEPT
                                 !.aBuf = SubSeq(stream.src, stream.cur_index + 1, count),
                                 !.last = Returned("Read", aCount, "Ok", count)]
    /\ UNCHANGED <<first, second, document, client, parser, channel, example>>

\* Available(): Ok(src.len() - cur_index)
Available ==
    /\ stream.pc = "open"
    /\ stream' = [stream EXCEPT
                     !.last = Returned("Available", 0, "Ok",
                                       Len(stream.src) - stream.cur_index)]
    /\ UNCHANGED <<first, second, document, client, parser, channel, example>>

\* StreamStatus(): closed at the end of src, Ok before.
StreamStatus ==
    /\ stream.pc = "open"
    /\ stream' = [stream EXCEPT
                     !.last = Returned("StreamStatus", 0,
                                       IF stream.cur_index = Len(stream.src)
                                       THEN "NS_BASE_STREAM_CLOSED" ELSE "Ok", 0)]
    /\ UNCHANGED <<first, second, document, client, parser, channel, example>>

\* Close(): Ok(())
Close ==
    /\ stream.pc = "open"
    /\ stream' = [stream EXCEPT !.last = Returned("Close", 0, "Ok", 0)]
    /\ UNCHANGED <<first, second, document, client, parser, channel, example>>

\* C30 as stated, its safety part: a Read that returns Ok returns a count of
\* at most min(aCount, src.len() - cur_index) and has advanced cur_index by
\* that count.
C30_Read ==
    (stream.last.op = "Read" /\ stream.last.state = "Ok") =>
        /\ stream.last.value <= Min(stream.last.aCount,
                                    Len(stream.src) - stream.last.before)
        /\ stream.cur_index = stream.last.before + stream.last.value

\* ------------------------------------------------- the find_item example
MaxBodyEvents == 4

\* let mut body_bytes = Vec::new(); write_request(&mut body_bytes, body) is
\* called and has n events to write into the sink.
Writing(n) ==
    [pc |-> "write_request", todo |-> Indices(n), body_bytes |-> <<>>, written |-> Pending,
     stderr |-> <<>>, requests |-> <<>>]

\* write_request: the writer accepts the next event, whose bytes reach the sink.
ExampleWrite ==
    /\ example.pc = "write_request"
    /\ example.todo # <<>>
    /\ example' = [example EXCEPT !.body_bytes = Append(@, Head(example.todo)),
                                  !.todo = Tail(@)]
    /\ UNCHANGED <<first, second, document, client, parser, channel, stream>>

\* write_request returns Ok once every event is written.
ExampleWritten ==
    /\ example.pc = "write_request"
    /\ example.todo = <<>>
    /\ example' = [example EXCEPT !.pc = "written", !.written = Ok]
    /\ UNCHANGED <<first, second, document, client, parser, channel, stream>>

\* write_request returns Err: if let Err(err) prints it and main goes on.
ExampleWriteErr ==
    /\ example.pc = "write_request"
    /\ example.todo # <<>>
    /\ \E e \in WriterErrors :
          example' = [example EXCEPT !.pc = "written", !.written = Err(e),
                                     !.stderr = Append(@, "Failed to write request")]
    /\ UNCHANGED <<first, second, document, client, parser, channel, stream>>

\* request(&config.username, &config.password, body_bytes) posts the bytes;
\* expect panics when the request could not be completed.
ExampleRequest ==
    /\ example.pc = "written"
    /\ \E outcome \in {"responded", "panicked"} :
          example' = [example EXCEPT !.pc = outcome,
                                     !.requests = Append(@, example.body_bytes)]
    /\ UNCHANGED <<first, second, document, client, parser, channel, stream>>

\* C24 as stated: when write_request returned Err the example sends no
\* request, so the bytes written before the failure never reach request().
C24_Discard == example.written.state = "Err" => example.requests = <<>>

\* ------------------------------------------------ the programs together
\* The macro is not invoked and no writer is called.
NoDerive ==
    /\ input = BaseShape
    /\ pc = "idle"
    /\ generated = Panicked("")
    /\ diag = ""
    /\ names = <<>>
    /\ self = NoValue
    /\ todo = <<>>
    /\ builder = start_element(<<>>)
    /\ events = <<>>
    /\ raised = ""
    /\ result = Pending
    /\ invoked = <<>>
    /\ second = NotCalled

\* One of the programs is started on one of its inputs.
InitClients ==
    /\ NoDerive
    /\ \/ /\ \E email \in Emails : document = Generating(email)
          /\ client = NoClient
          /\ parser = NoParser
          /\ channel = NoChannel
          /\ stream = NoStream
          /\ example = NoExample
       \/ /\ \E n \in 1..MaxBodyEvents : example = Writing(n)
          /\ document = NoDocument
          /\ client = NoClient
          /\ parser = NoParser
          /\ channel = NoChannel
          /\ stream = NoStream
       \/ /\ \E address \in Emails : client = Entered(address)
          /\ document = NoDocument
          /\ parser = NoParser
          /\ channel = NoChannel
          /\ stream = NoStream
          /\ example = NoExample
       \/ /\ parser = Scanning
          /\ document = NoDocument
          /\ client = NoClient
          /\ channel = NoChannel
          /\ stream = NoStream
          /\ example = NoExample
       \/ /\ \E method \in Methods, request_body \in RequestBodies :
                channel = Requesting(method, request_body)
          /\ document = NoDocument
          /\ client = NoClient
          /\ parser = NoParser
          /\ stream = NoStream
          /\ example = NoExample
       \/ /\ \E src \in Sources : stream = Streaming(src)
          /\ document = NoDocument
          /\ client = NoClient
          /\ parser = NoParser
          /\ channel = NoChannel
          /\ example = NoExample

NextClients ==
    \/ WriteEvent
    \/ WriteEventErr
    \/ ReturnBody
    \/ ExampleWrite
    \/ ExampleWritten
    \/ ExampleWriteErr
    \/ ExampleRequest
    \/ BuildFirst
    \/ ExecuteFirst
    \/ Prompt
    \/ BuildSecond
    \/ ExecuteSecond
    \/ Report
    \/ ParseStart
    \/ ParseEnd
    \/ ParseCharacters
    \/ ParseOther
    \/ ParseReturn
    \/ GetIOService
    \/ GetScriptSecurityManager
    \/ GetSystemPrincipal
    \/ NewChannel
    \/ CreateBodyStream
    \/ QueryUploadChannel
    \/ SetUTF8Data
    \/ ExplicitSetUploadStream
    \/ AsyncOpen
    \/ Read
    \/ Available
    \/ StreamStatus
    \/ Close

SpecClients == InitClients /\ [][NextClients]_vars

====
